---- MODULE Spec2Model ----
(***************************************************************************)
(* Transcript turn segmentation and linguistic feature extraction          *)
(* (backend/calculations).  Text is a sequence of one-character strings;   *)
(* the regular expressions of the source are written out as the scans the  *)
(* regex engine performs (leftmost match, lazy/greedy extension,           *)
(* lookahead, IGNORECASE, '.' not matching a newline).                     *)
(***************************************************************************)
EXTENDS Integers, Sequences, FiniteSets, TLC

VARIABLES
    text, participant_id, turns, seg_pc,          \* split_turns
    words, repeats, rep_text, clean_count, rep_pc,\* word repeats of one turn
    segment, word_count, wc_pc,                   \* clean_and_count_words
    cue, normalized, renormalized, cue_pc,        \* normalize_nonverbal_cue
    cue_text, cues, nonverbal_count, ext_pc,      \* extract_cues_from_text
    files, pipeline, file_i, by_file, results,    \* batch pipelines
    dis_text, disfluency_count, disfluencies, dis_pc, \* disfluency counters
    file_name, calc_metadata, file_metadata, meta_pc, \* filename metadata
    cmp_text, cmp_pid, caregiver_segs, plwd_segs, cmp_turns, cmp_pc, \* both segmentations
    data_dir, master_data, faiss_index, processed_files, \* IncrementalProcessor
    master_file, faiss_file, processed_files_log, new_files, runs_unchanged, inc_pc

segVars   == <<text, participant_id, turns, seg_pc>>
repVars   == <<words, repeats, rep_text, clean_count, rep_pc>>
wcVars    == <<segment, word_count, wc_pc>>
cueVars   == <<cue, normalized, renormalized, cue_pc>>
extVars   == <<cue_text, cues, nonverbal_count, ext_pc>>
batchVars == <<files, pipeline, file_i, by_file, results>>
disVars   == <<dis_text, disfluency_count, disfluencies, dis_pc>>
metaVars  == <<file_name, calc_metadata, file_metadata, meta_pc>>
cmpVars   == <<cmp_text, cmp_pid, caregiver_segs, plwd_segs, cmp_turns, cmp_pc>>
incVars   == <<data_dir, master_data, faiss_index, processed_files,
               master_file, faiss_file, processed_files_log, new_files,
               runs_unchanged, inc_pc>>
vars      == <<segVars, repVars, wcVars, cueVars, extVars, batchVars, disVars, metaVars,
               cmpVars, incVars>>

\* Python's None
\* (a one-element sequence holding an atom that is no character, so that it
\* compares with every string and equals none)
None == <<"None">>

(***************************************************************************)
(* Characters and str methods                                             *)
(***************************************************************************)
UpperChars == <<"A","B","C","D","E","F","G","H","I","J","K","L","M",
                "N","O","P","Q","R","S","T","U","V","W","X","Y","Z">>
LowerChars == <<"a","b","c","d","e","f","g","h","i","j","k","l","m",
                "n","o","p","q","r","s","t","u","v","w","x","y","z">>
Digits     == {"0","1","2","3","4","5","6","7","8","9"}

UpperSet   == { UpperChars[k] : k \in 1..26 }
LowerSet   == { LowerChars[k] : k \in 1..26 }
LowerOf    == [c \in UpperSet |-> LowerChars[CHOOSE k \in 1..26 : UpperChars[k] = c]]
UpperOf    == [c \in LowerSet |-> UpperChars[CHOOSE k \in 1..26 : LowerChars[k] = c]]

ToLowerChar(c) == IF c \in UpperSet THEN LowerOf[c] ELSE c

ToUpperChar(c) == IF c \in LowerSet THEN UpperOf[c] ELSE c

\* str.lower()
Lower(s) == [k \in 1..Len(s) |-> ToLowerChar(s[k])]

\* str.upper()
Upper(s) == [k \in 1..Len(s) |-> ToUpperChar(s[k])]

\* the characters str.strip(), str.split() and \s treat as whitespace
IsSpace(c) == c \in {" ", "\n", "\t"}

\* \w of the re module (letters, digits, underscore)
IsWordChar(c) == c \in Digits \/ c = "_" \/ c \in UpperSet \/ c \in LowerSet

\* str.strip()
Strip(s) ==
    IF \A k \in 1..Len(s) : IsSpace(s[k]) THEN <<>>
    ELSE LET a == CHOOSE k \in 1..Len(s) :
                    /\ ~IsSpace(s[k])
                    /\ \A m \in 1..(k-1) : IsSpace(s[m])
             b == CHOOSE k \in 1..Len(s) :
                    /\ ~IsSpace(s[k])
                    /\ \A m \in (k+1)..Len(s) : IsSpace(s[m])
         IN  SubSeq(s, a, b)

\* str.split() with no argument: the maximal runs of non-whitespace
RECURSIVE SplitFrom(_, _)
SplitFrom(s, pos) ==
    IF \A k \in pos..Len(s) : IsSpace(s[k]) THEN <<>>
    ELSE LET a == CHOOSE k \in pos..Len(s) :
                    /\ ~IsSpace(s[k])
                    /\ \A m \in pos..(k-1) : IsSpace(s[m])
             b == CHOOSE k \in a..Len(s) :
                    /\ \A m \in a..k : ~IsSpace(s[m])
                    /\ (k = Len(s) \/ IsSpace(s[k+1]))
         IN  <<SubSeq(s, a, b)>> \o SplitFrom(s, b + 1)

Split(s) == SplitFrom(s, 1)

\* the literal lit occurs in s at index i
LitAt(s, i, lit) ==
    /\ i >= 1
    /\ i + Len(lit) - 1 <= Len(s)
    /\ \A k \in 1..Len(lit) : s[i + k - 1] = lit[k]

\* the literal lit occurs in s at index i under re.IGNORECASE
LitAtCI(s, i, lit) ==
    /\ i >= 1
    /\ i + Len(lit) - 1 <= Len(s)
    /\ \A k \in 1..Len(lit) : ToLowerChar(s[i + k - 1]) = ToLowerChar(lit[k])

\* str.startswith / str.endswith / the "in" operator on strings
StartsWith(s, lit) == LitAt(s, 1, lit)
EndsWith(s, lit)   == LitAt(s, Len(s) - Len(lit) + 1, lit)
Contains(s, lit)   == \E i \in 1..(Len(s) + 1) : LitAt(s, i, lit)

\* '$' without re.MULTILINE: the end of the string, or just before a final newline
DollarAt(s, i) == i = Len(s) + 1 \/ (i = Len(s) /\ s[i] = "\n")

\* sequences over a set of pieces, concatenated: at most n pieces
RECURSIVE TextsOf(_, _)
TextsOf(pieces, n) ==
    IF n = 0 THEN {<<>>}
    ELSE LET prev == TextsOf(pieces, n - 1)
         IN  prev \cup {t \o p : t \in prev, p \in pieces}

(***************************************************************************)
(* split_turns (nonverbal_extract.py, word_repeats_extract.py)             *)
(***************************************************************************)
\* f"{participant_id}_c:" and f"{participant_id}_p:"
CaregiverPattern(pid) == pid \o <<"_", "c", ":">>
PlwdPattern(pid)      == pid \o <<"_", "p", ":">>

\* group 1: (caregiver_pattern|plwd_pattern), IGNORECASE
TagAt(s, pid, i) ==
    LitAtCI(s, i, CaregiverPattern(pid)) \/ LitAtCI(s, i, PlwdPattern(pid))

\* the lookahead (?=participant_id_[cp]:), IGNORECASE
LookaheadAt(s, pid, i) ==
    /\ LitAtCI(s, i, pid \o <<"_">>)
    /\ i + Len(pid) + 2 <= Len(s)
    /\ ToLowerChar(s[i + Len(pid) + 1]) \in {"c", "p"}
    /\ s[i + Len(pid) + 2] = ":"

\* (.*?) followed by ((?=...)|$) under DOTALL: the first index at or after
\* from where the lookahead or '$' matches
LazyEnd(s, pid, from) ==
    CHOOSE e \in from..(Len(s) + 1) :
        /\ LookaheadAt(s, pid, e) \/ DollarAt(s, e)
        /\ \A m \in from..(e - 1) : ~(LookaheadAt(s, pid, m) \/ DollarAt(s, m))

\* regex.finditer(text): the non-overlapping matches, leftmost first
RECURSIVE FindIterTurns(_, _, _)
FindIterTurns(s, pid, pos) ==
    IF \A k \in pos..Len(s) : ~TagAt(s, pid, k) THEN <<>>
    ELSE LET st  == CHOOSE k \in pos..Len(s) :
                      /\ TagAt(s, pid, k)
                      /\ \A m \in pos..(k-1) : ~TagAt(s, pid, m)
             gs  == st + Len(pid) + 3
             e   == LazyEnd(s, pid, gs)
         IN  <<[start |-> st,
                group1 |-> SubSeq(s, st, gs - 1),
                group2 |-> SubSeq(s, gs, e - 1)]>>
             \o FindIterTurns(s, pid, e)

\* a mutation of split_turns: content kept without .strip()
SplitTurnsNoStrip(s, pid) ==
    LET ms == FindIterTurns(s, pid, 1)
    IN  [k \in 1..Len(ms) |->
            [speaker |-> IF EndsWith(Lower(ms[k].group1), <<"_", "c", ":">>)
                         THEN "caregiver" ELSE "plwd",
             text    |-> ms[k].group2]]

\* a mutation of split_turns: the lookahead consumed, so every second tag is lost
RECURSIVE FindIterConsuming(_, _, _)
FindIterConsuming(s, pid, pos) ==
    IF \A k \in pos..Len(s) : ~TagAt(s, pid, k) THEN <<>>
    ELSE LET st  == CHOOSE k \in pos..Len(s) :
                      /\ TagAt(s, pid, k)
                      /\ \A m \in pos..(k-1) : ~TagAt(s, pid, m)
             gs  == st + Len(pid) + 3
             e   == LazyEnd(s, pid, gs)
         IN  <<[start |-> st,
                group1 |-> SubSeq(s, st, gs - 1),
                group2 |-> SubSeq(s, gs, e - 1)]>>
             \o FindIterConsuming(s, pid, e + Len(pid) + 3)

SplitTurnsConsuming(s, pid) ==
    LET ms == FindIterConsuming(s, pid, 1)
    IN  [k \in 1..Len(ms) |->
            [speaker |-> IF EndsWith(Lower(ms[k].group1), <<"_", "c", ":">>)
                         THEN "caregiver" ELSE "plwd",
             text    |-> Strip(ms[k].group2)]]

split_turns(s, pid) ==
    LET ms == FindIterTurns(s, pid, 1)
    IN  [k \in 1..Len(ms) |->
            [speaker |-> IF EndsWith(Lower(ms[k].group1), <<"_", "c", ":">>)
                         THEN "caregiver" ELSE "plwd",
             text    |-> Strip(ms[k].group2)]]

(***************************************************************************)
(* Idle values: what a variable group holds in a specification that does   *)
(* not exercise it                                                         *)
(***************************************************************************)
SegIdle   == text = <<>> /\ participant_id = <<>> /\ turns = <<>> /\ seg_pc = "idle"
RepIdle   == words = <<>> /\ repeats = <<>> /\ rep_text = <<>> /\ clean_count = 0
             /\ rep_pc = "idle"
WcIdle    == segment = <<>> /\ word_count = 0 /\ wc_pc = "idle"
CueIdle   == cue = <<>> /\ normalized = None /\ renormalized = None /\ cue_pc = "idle"
ExtIdle   == cue_text = <<>> /\ cues = <<>> /\ nonverbal_count = 0 /\ ext_pc = "idle"
BatchIdle == files = <<>> /\ pipeline = "idle" /\ file_i = 0 /\ by_file = <<>>
             /\ results = <<>>
DisIdle   == dis_text = <<>> /\ disfluency_count = 0 /\ disfluencies = <<>>
             /\ dis_pc = "idle"
MetaIdle  == file_name = <<>> /\ calc_metadata = <<>> /\ file_metadata = <<>>
             /\ meta_pc = "idle"
CmpIdle   == cmp_text = <<>> /\ cmp_pid = <<>> /\ caregiver_segs = <<>>
             /\ plwd_segs = <<>> /\ cmp_turns = <<>> /\ cmp_pc = "idle"
IncIdle   == data_dir = <<>> /\ master_data = <<>> /\ faiss_index = <<>>
             /\ processed_files = {} /\ master_file = <<>> /\ faiss_file = <<>>
             /\ processed_files_log = <<>> /\ new_files = <<>>
             /\ runs_unchanged = 0 /\ inc_pc = "idle"

(***************************************************************************)
(* Segmentation of one document                                            *)
(***************************************************************************)
MaxPieces == 4

Vr1 == <<"v", "r", "1">>

\* the fragments documents are built from: both tags in both letter cases, a
\* truncated tag, a letter, a blank and a line break
SegPieces ==
    { <<"v","r","1","_","c",":">>, <<"V","R","1","_","P",":">>,
      <<"v","r","1","_">>, <<"a">>, <<" ">>, <<"\n">> }

SegTexts == TextsOf(SegPieces, MaxPieces)

SegInit ==
    /\ text \in SegTexts
    /\ participant_id = Vr1
    /\ turns = <<>>
    /\ seg_pc = "start"
    /\ RepIdle /\ WcIdle /\ CueIdle /\ ExtIdle /\ BatchIdle /\ DisIdle /\ MetaIdle
    /\ CmpIdle /\ IncIdle

\* turns = split_turns(text, participant_id)
SplitTurns ==
    /\ seg_pc = "start"
    /\ turns' = split_turns(text, participant_id)
    /\ seg_pc' = "done"
    /\ UNCHANGED <<text, participant_id>>
    /\ UNCHANGED <<repVars, wcVars, cueVars, extVars, batchVars, disVars, metaVars, cmpVars, incVars>>

SegNext == SplitTurns

SpecSeg == SegInit /\ [][SegNext]_vars

\* the indices at which a speaker marker occurs, compared on the lowercased text
MarkerLen(pid) == Len(pid) + 3

MarkerOccurrences(s, pid) ==
    { i \in 1..Len(s) :
        /\ i + MarkerLen(pid) - 1 <= Len(s)
        /\ Lower(SubSeq(s, i, i + MarkerLen(pid) - 1))
              \in {CaregiverPattern(pid), PlwdPattern(pid)} }

\* the k-th smallest element of a finite set of integers
RECURSIVE KthOf(_, _)
KthOf(S, k) ==
    LET m == CHOOSE x \in S : \A y \in S : x <= y
    IN  IF k = 1 THEN m ELSE KthOf(S \ {m}, k - 1)

\* the text lying strictly between the k-th marker and the next one (or the end)
SpanAfter(s, pid, k) ==
    LET occ == MarkerOccurrences(s, pid)
        o   == KthOf(occ, k)
        nxt == IF k < Cardinality(occ) THEN KthOf(occ, k + 1) ELSE Len(s) + 1
    IN  SubSeq(s, o + MarkerLen(pid), nxt - 1)

\* speaker of the marker at the k-th occurrence: caregiver iff it ends in _c:
SpeakerAt(s, pid, k) ==
    LET o == KthOf(MarkerOccurrences(s, pid), k)
    IN  IF ToLowerChar(s[o + MarkerLen(pid) - 2]) = "c" THEN "caregiver" ELSE "plwd"

TurnsMatchMarkers ==
    /\ Len(turns) = Cardinality(MarkerOccurrences(text, participant_id))
    /\ \A k \in 1..Len(turns) : turns[k].speaker = SpeakerAt(text, participant_id, k)

WellFormedTags(s, pid) ==
    \A i \in 1..Len(s) :
        LitAtCI(s, i, pid \o <<"_">>) => i \in MarkerOccurrences(s, pid)

\* the document from its first marker to its end
PostPreamble(s, pid) ==
    LET occ == MarkerOccurrences(s, pid)
    IN  IF occ = {} THEN <<>> ELSE SubSeq(s, KthOf(occ, 1), Len(s))

\* the marker of the document's k-th occurrence, as written in the document
MarkerText(s, pid, k) ==
    LET o == KthOf(MarkerOccurrences(s, pid), k)
    IN  SubSeq(s, o, o + MarkerLen(pid) - 1)

\* marker 1, text 1, marker 2, text 2, ... concatenated, from turn k on
RECURSIVE Reconstruct(_, _, _, _)
Reconstruct(s, pid, ts, k) ==
    IF k > Len(ts) \/ k > Cardinality(MarkerOccurrences(s, pid)) THEN <<>>
    ELSE MarkerText(s, pid, k) \o ts[k].text \o Reconstruct(s, pid, ts, k + 1)

\* marker 1, stripped span 1, marker 2, stripped span 2, ... from occurrence k on
RECURSIVE StrippedDocument(_, _, _)
StrippedDocument(s, pid, k) ==
    IF k > Cardinality(MarkerOccurrences(s, pid)) THEN <<>>
    ELSE MarkerText(s, pid, k) \o Strip(SpanAfter(s, pid, k))
         \o StrippedDocument(s, pid, k + 1)

\* some text between two markers (or after the last) begins or ends with whitespace
SomeSpanPadded(s, pid) ==
    \E k \in 1..Cardinality(MarkerOccurrences(s, pid)) :
        Strip(SpanAfter(s, pid, k)) # SpanAfter(s, pid, k)

CloseIndex(s, pos, cl, minlen) ==
    LET ok(e) == /\ s[e] = cl
                 /\ \A m \in (pos + 1)..(e - 1) : s[m] # "\n"
    IN  IF \E e \in (pos + 1 + minlen)..Len(s) : ok(e)
        THEN CHOOSE e \in (pos + 1 + minlen)..Len(s) :
                ok(e) /\ \A m \in (pos + 1 + minlen)..(e - 1) : ~ok(m)
        ELSE 0

\* re.sub(op .*? cl, repl, s): every leftmost lazy span replaced by repl
RECURSIVE SubSpans(_, _, _, _, _)
SubSpans(s, op, cl, repl, pos) ==
    LET opens(k) == s[k] = op /\ CloseIndex(s, k, cl, 0) # 0
    IN  IF \A k \in pos..Len(s) : ~opens(k) THEN SubSeq(s, pos, Len(s))
        ELSE LET st == CHOOSE k \in pos..Len(s) :
                          opens(k) /\ \A m \in pos..(k - 1) : ~opens(m)
             IN  SubSeq(s, pos, st - 1) \o repl
                 \o SubSpans(s, op, cl, repl, CloseIndex(s, st, cl, 0) + 1)

\* re.findall(op (.*?) cl, s) for minlen = 0, op (.+?) cl for minlen = 1: the
\* captured groups of the non-overlapping matches, leftmost first
RECURSIVE FindSpans(_, _, _, _, _)
FindSpans(s, op, cl, minlen, pos) ==
    LET opens(k) == s[k] = op /\ CloseIndex(s, k, cl, minlen) # 0
    IN  IF \A k \in pos..Len(s) : ~opens(k) THEN <<>>
        ELSE LET st == CHOOSE k \in pos..Len(s) :
                          opens(k) /\ \A m \in pos..(k - 1) : ~opens(m)
             IN  <<SubSeq(s, st + 1, CloseIndex(s, st, cl, minlen) - 1)>>
                 \o FindSpans(s, op, cl, minlen, CloseIndex(s, st, cl, minlen) + 1)

\* re.sub(r'\s+', ' ', s): every maximal run of whitespace becomes one blank
CollapseSpaces(s, pos) ==
    LET kept == SelectSeq([k \in 1..Len(s) |-> k],
                          LAMBDA k : /\ k >= pos
                                     /\ ~(IsSpace(s[k]) /\ k > 1 /\ IsSpace(s[k - 1])))
    IN  [m \in 1..Len(kept) |-> IF IsSpace(s[kept[m]]) THEN " " ELSE s[kept[m]]]

(***************************************************************************)
(* calculations.py: clean_and_count_words                                  *)
(***************************************************************************)
DISFLUENCIES ==
    { <<"u", "m">>, <<"u", "m", "m">>, <<"u", "h">>, <<"u", "h", "h">>, <<"u", "h", "h", "h">>, <<"e", "r">>, <<"e", "r", "r">>, <<"e", "r", "m">>,
      <<"a", "h">>, <<"a", "h", "h">>, <<"h", "m">>, <<"h", "m", "m">>, <<"m", "h", "m">>, <<"m", "m">>, <<"m", "m", "m">>, <<"e", "h">>,
      <<"e", "h", "m">>, <<"e", "m">> }

\* [w for w in words if w.lower() not in DISFLUENCIES]
KeepNonDisfluent(ws) == SelectSeq(ws, LAMBDA w : Lower(w) \notin DISFLUENCIES)

\* a mutation of clean_and_count_words: the brackets replaced by a blank
CleanAndCountBlank(seg) ==
    Len(KeepNonDisfluent(Split(Strip(SubSpans(seg, "[", "]", <<" ">>, 1)))))

clean_and_count_words(seg) ==
    Len(KeepNonDisfluent(Split(Strip(SubSpans(seg, "[", "]", <<>>, 1)))))

(***************************************************************************)
(* word_repeats_extract.py                                                 *)
(***************************************************************************)
\* a mutation of DISFLUENCY_MARKERS: the filled pauses alone
FilledPausesOnly == { <<"u", "m">>, <<"u", "h">>, <<"e", "r">>, <<"a", "h">> }

DISFLUENCY_MARKERS ==
    { <<"u", "m">>, <<"u", "h">>, <<"e", "r">>, <<"a", "h">>, <<"y", "o", "u">>, <<"k", "n", "o", "w">>, <<"i">>, <<"m", "e", "a", "n">>,
      <<"s", "o", "r", "t">>, <<"o", "f">>, <<"k", "i", "n", "d">>, <<"w", "e", "l", "l">>, <<"s", "o">>, <<"b", "a", "s", "i", "c", "a", "l", "l", "y">> }

clean_text_remove_brackets(s) ==
    IF s = <<>> THEN <<>>
    ELSE LET t1 == SubSpans(s, "[", "]", <<" ">>, 1)
             t2 == SubSpans(t1, "(", ")", <<" ">>, 1)
         IN  CollapseSpaces(Strip(t2), 1)

\* re.sub(r"^[^\w]+|[^\w]+$", '', w): the leading and the trailing run of
\* non-word characters removed
StripNonWord(w) ==
    IF \A k \in 1..Len(w) : ~IsWordChar(w[k]) THEN <<>>
    ELSE LET a == CHOOSE k \in 1..Len(w) :
                    IsWordChar(w[k]) /\ \A m \in 1..(k-1) : ~IsWordChar(w[m])
             b == CHOOSE k \in 1..Len(w) :
                    IsWordChar(w[k]) /\ \A m \in (k+1)..Len(w) : ~IsWordChar(w[m])
         IN  SubSeq(w, a, b)

tokenize_basic(s) ==
    IF s = <<>> THEN <<>>
    ELSE LET ws == Split(Lower(s))
             st == [k \in 1..Len(ws) |-> StripNonWord(ws[k])]
         IN  SelectSeq(st, LAMBDA w : w # <<>>)

\* the number of tokens shown on each side of a repeated span
ContextWindow == 5

Max2(a, b) == IF a >= b THEN a ELSE b
Min2(a, b) == IF a <= b THEN a ELSE b

\* ' '.join(parts)
RECURSIVE JoinWithSpace(_)
JoinWithSpace(parts) ==
    IF parts = <<>> THEN <<>>
    ELSE IF Len(parts) = 1 THEN parts[1]
    ELSE parts[1] \o <<" ">> \o JoinWithSpace(Tail(parts))

\* the inner while loop: the first index j > i (0-based) with words[j] # current
\* word, or len(words)
RunEnd(ws, i) ==
    CHOOSE j \in (i + 1)..Len(ws) :
        /\ \A m \in (i + 1)..(j - 1) : ws[m + 1] = ws[i + 1]
        /\ (j = Len(ws) \/ ws[j + 1] # ws[i + 1])

\* a mutation of the context window: the end measured from the start of the
\* run instead of from its end
HighlightedFromStart(ws, i, j) ==
    LET start_idx == Max2(0, i - ContextWindow)
        end_idx   == Min2(Len(ws), Max2(j, i + ContextWindow))
        parts == [k \in 1..(end_idx - start_idx) |->
                    LET actual_idx == start_idx + (k - 1)
                        w == ws[actual_idx + 1]
                    IN  IF i <= actual_idx /\ actual_idx < j
                        THEN <<"*", "*">> \o w \o <<"*", "*">>
                        ELSE w]
    IN  JoinWithSpace(parts)

\* the context string of the run [i, j) (0-based), its tokens wrapped in **
Highlighted(ws, i, j) ==
    LET start_idx == Max2(0, i - ContextWindow)
        end_idx   == Min2(Len(ws), j + ContextWindow)
        parts == [k \in 1..(end_idx - start_idx) |->
                    LET actual_idx == start_idx + (k - 1)
                        w == ws[actual_idx + 1]
                    IN  IF i <= actual_idx /\ actual_idx < j
                        THEN <<"*", "*">> \o w \o <<"*", "*">>
                        ELSE w]
    IN  JoinWithSpace(parts)

\* a mutation of the scan: i += 1 after a recorded run instead of i = j
RECURSIVE DetectRescanning(_, _)
DetectRescanning(ws, i) ==
    IF ~(i < Len(ws) - 1) THEN <<>>
    ELSE IF ws[i + 1] \in DISFLUENCY_MARKERS THEN DetectRescanning(ws, i + 1)
    ELSE IF ws[i + 1] = ws[i + 2]
         THEN LET j == RunEnd(ws, i)
              IN  <<[word |-> ws[i + 1], count |-> j - i, position |-> i,
                     context |-> Highlighted(ws, i, j)]>>
                  \o DetectRescanning(ws, i + 1)
         ELSE DetectRescanning(ws, i + 1)

\* the while loop of detect_immediate_repeats from scan index i (0-based)
RECURSIVE DetectFrom(_, _)
DetectFrom(ws, i) ==
    IF ~(i < Len(ws) - 1) THEN <<>>
    ELSE IF ws[i + 1] \in DISFLUENCY_MARKERS THEN DetectFrom(ws, i + 1)
    ELSE IF ws[i + 1] = ws[i + 2]
         THEN LET j == RunEnd(ws, i)
              IN  <<[word |-> ws[i + 1], count |-> j - i, position |-> i,
                     context |-> Highlighted(ws, i, j)]>>
                  \o DetectFrom(ws, j)
         ELSE DetectFrom(ws, i + 1)

detect_immediate_repeats(ws) ==
    IF Len(ws) < 2 THEN <<>> ELSE DetectFrom(ws, 0)

(***************************************************************************)
(* Word repeats of one turn: the body of process_all's loop over turns     *)
(* (clean, tokenize, detect), and calculations' clean word count of the    *)
(* same turn text                                                          *)
(***************************************************************************)
MaxWords == 5
MaxRun == 3

To == <<"t", "o">>
We == <<"w", "e">>

RepVocabulary == { To, We, <<"u", "m">> }

\* n copies of the token w
Copies(w, n) == [k \in 1..n |-> w]

\* every token sequence over the vocabulary, up to MaxWords tokens
WordSeqs == UNION { [1..n -> RepVocabulary] : n \in 0..MaxWords }

\* every marker, and two ordinary words, repeated 2..MaxRun times with and
\* without neighbours
RunSeqs ==
    { pre \o Copies(w, n) \o post :
        w \in DISFLUENCY_MARKERS \cup { To, We },
        n \in 2..MaxRun,
        pre \in { <<>>, <<<<"g", "o">>>> },
        post \in { <<>>, <<<<"g", "o">>>> } }

\* n tokens none of which repeats its neighbour: x y x y ...
Filler(n) == [k \in 1..n |-> IF k % 2 = 1 THEN <<"x">> ELSE <<"y">>]

\* a run with 0 to 7 tokens before it and after it, so that the context
\* window reaches a boundary of the sequence on either side, or neither
WindowSeqs ==
    { Filler(p) \o Copies(To, n) \o Filler(q) :
        p \in {0, 1, 4, 5, 6, 7}, n \in 2..MaxRun, q \in {0, 1, 4, 5, 6, 7} }

WeNeedToToToFinish == << We, <<"n", "e", "e", "d">>, To, To, To, <<"f", "i", "n", "i", "s", "h">> >>

\* turn texts of the end-to-end scenarios, and texts with brackets,
\* parentheses, punctuation and letter case
IIAmFineLaughs == <<"I", " ", "I", " ", "a", "m", " ", "f", "i", "n", "e", " ", "[", "l", "a", "u", "g", "h", "s", "]">>

RepTexts ==
    { IIAmFineLaughs,
      <<"w", "e", " ", "n", "e", "e", "d", " ", "t", "o", " ", "t", "o", " ", "t", "o", " ", "f", "i", "n", "i", "s", "h">>,
      <<"H", "o", "w", " ", "a", "r", "e", " ", "y", "o", "u", "?", " ", "[", "p", "a", "u", "s", "e", "]">>,
      <<"G", "o", ",", " ", "g", "o", " ", "(", "a", "s", "i", "d", "e", ")", " ", "G", "O", "!", " ", "[", "x", "]", "g", "o", ".", " ", "-", "-", " ", "s", "o", " ", "s", "o">>,
      <<"n", "o", " ", "[", "a", "\n", "b", "]", " ", "n", "o", " ", "(", "c", ")", " ", "N", "o", ".", ".", ".", " ", "'", "'">>,
      <<>> }

RepInit ==
    /\ \/ /\ rep_text \in RepTexts
          /\ words = <<>>
          /\ rep_pc = "text"
       \/ /\ rep_text = <<>>
          /\ words \in WordSeqs \cup RunSeqs \cup WindowSeqs \cup { WeNeedToToToFinish }
          /\ rep_pc = "words"
    /\ repeats = <<>>
    /\ clean_count = 0
    /\ SegIdle /\ WcIdle /\ CueIdle /\ ExtIdle /\ BatchIdle /\ DisIdle /\ MetaIdle
    /\ CmpIdle /\ IncIdle

\* cleaned = clean_text_remove_brackets(t['text']); words = tokenize_basic(cleaned)
CleanAndTokenize ==
    /\ rep_pc = "text"
    /\ words' = tokenize_basic(clean_text_remove_brackets(rep_text))
    /\ rep_pc' = "words"
    /\ UNCHANGED <<repeats, rep_text, clean_count>>
    /\ UNCHANGED <<segVars, wcVars, cueVars, extVars, batchVars, disVars, metaVars, cmpVars, incVars>>

\* reps = detect_immediate_repeats(words)
DetectRepeats ==
    /\ rep_pc = "words"
    /\ repeats' = detect_immediate_repeats(words)
    /\ rep_pc' = "detected"
    /\ UNCHANGED <<words, rep_text, clean_count>>
    /\ UNCHANGED <<segVars, wcVars, cueVars, extVars, batchVars, disVars, metaVars, cmpVars, incVars>>

\* calculations.analyze_transcript: clean_and_count_words(seg) of the turn text
CountCleanWords ==
    /\ rep_pc = "detected"
    /\ clean_count' = clean_and_count_words(rep_text)
    /\ rep_pc' = "done"
    /\ UNCHANGED <<words, repeats, rep_text>>
    /\ UNCHANGED <<segVars, wcVars, cueVars, extVars, batchVars, disVars, metaVars, cmpVars, incVars>>

RepNext == CleanAndTokenize \/ DetectRepeats \/ CountCleanWords

SpecRep == RepInit /\ [][RepNext]_vars

RepDetected == rep_pc \in {"detected", "done"}

\* the extended marker set as the specification lists it
ListedMarkers ==
    { <<"u", "m">>, <<"u", "h">>, <<"e", "r">>, <<"a", "h">>, <<"y", "o", "u">>, <<"k", "n", "o", "w">>, <<"i">>, <<"m", "e", "a", "n">>,
      <<"s", "o", "r", "t">>, <<"o", "f">>, <<"k", "i", "n", "d">>, <<"w", "e", "l", "l">>, <<"s", "o">>, <<"b", "a", "s", "i", "c", "a", "l", "l", "y">> }

\* the maximal runs of two or more identical consecutive tokens: 0-based index
\* of the first token, length, and the word
MaximalRuns(ws) ==
    { r \in [position : 0..(Len(ws) - 1), count : 2..Len(ws)] :
        /\ r.position + r.count <= Len(ws)
        /\ \A k \in 1..r.count : ws[r.position + k] = ws[r.position + 1]
        /\ (r.position = 0 \/ ws[r.position] # ws[r.position + 1])
        /\ (r.position + r.count = Len(ws)
              \/ ws[r.position + r.count + 1] # ws[r.position + 1]) }

ReportableRuns(ws) ==
    { r \in MaximalRuns(ws) : ws[r.position + 1] \notin ListedMarkers }

\* sum(r['count'] - 1 for r in reps)
RECURSIVE ExtraCount(_)
ExtraCount(reps) ==
    IF reps = <<>> THEN 0 ELSE (Head(reps).count - 1) + ExtraCount(Tail(reps))

\* C4: exactly one instance per maximal run of two or more identical tokens
\* whose word is not a marker, with the full run length as count and the index
\* of the run's first token as position, and nothing else; 'we need to to to
\* finish' gives the single instance {to, 3}, two extra occurrences.
C4_OneInstancePerMaximalRun ==
    RepDetected =>
       /\ Len(repeats) = Cardinality(ReportableRuns(words))
       /\ { [position |-> repeats[k].position, count |-> repeats[k].count] :
               k \in 1..Len(repeats) } = ReportableRuns(words)
       /\ \A k \in 1..Len(repeats) : repeats[k].word = words[repeats[k].position + 1]
       /\ (words = WeNeedToToToFinish =>
              /\ Len(repeats) = 1
              /\ repeats[1].word = To /\ repeats[1].count = 3
              /\ ExtraCount(repeats) = 2)

\* the tokens of 'we need to to to finish', tokenized from the turn text, have
\* been scanned and a run of three was reported
C4_Witness ==
    /\ RepDetected
    /\ rep_text # <<>>
    /\ words = WeNeedToToToFinish
    /\ \E k \in 1..Len(repeats) : repeats[k].count = 3 /\ repeats[k].position = 2

\* C5: no instance is ever reported for a word of the extended marker set,
\* however long its run; a sequence whose only runs are runs of markers yields
\* no instance and adds nothing to the totals.
C5_NoMarkerInstance ==
    RepDetected =>
       /\ \A k \in 1..Len(repeats) : repeats[k].word \notin ListedMarkers
       /\ ((\A r \in MaximalRuns(words) : words[r.position + 1] \in ListedMarkers)
             => (repeats = <<>> /\ ExtraCount(repeats) = 0))

\* a run of three copies of a marker other than a filled pause, next to
\* ordinary words, has been scanned
C5_Witness ==
    /\ RepDetected
    /\ \E r \in MaximalRuns(words) :
          /\ r.count = 3
          /\ words[r.position + 1] \in ListedMarkers \ FilledPausesOnly
    /\ Len(words) > 3
    /\ repeats = <<>>

\* C6 as stated: the turn text 'I I am fine [laughs]' yields an instance with
\* word i and count 2, and its clean word count is 3.
C6_AsStated ==
    (rep_pc = "done" /\ rep_text = IIAmFineLaughs) =>
       /\ \E k \in 1..Len(repeats) : repeats[k].word = <<"i">> /\ repeats[k].count = 2
       /\ clean_count = 3

\* C6 (amended): the turn text 'I I am fine [laughs]' is cleaned and tokenized
\* to i, i, am, fine; the repeated pronoun is a marker, so no instance is
\* reported for it; the clean word count of the turn is 4.
C6_PronounRepeatSkipped ==
    (rep_pc = "done" /\ rep_text = IIAmFineLaughs) =>
       /\ words = << <<"i">>, <<"i">>, <<"a", "m">>, <<"f", "i", "n", "e">> >>
       /\ repeats = <<>>
       /\ clean_count = 4

\* the scenario's turn text has gone through cleaning, tokenizing, detection
\* and counting
C6_Witness ==
    /\ rep_pc = "done"
    /\ rep_text = IIAmFineLaughs
    /\ Len(words) = 4 /\ words[1] = words[2]

(***************************************************************************)
(* Clean word count of one turn text (calculations.clean_and_count_words)  *)
(***************************************************************************)
MaxSegLen == 5

\* 'm' is a word, 'mm' and 'mmm' are disfluencies, 'mmmm' is a word again
WcAlphabet == { "m", " ", "[", "]", "\n" }

WcTexts ==
    UNION { [1..n -> WcAlphabet] : n \in 0..MaxSegLen }
    \cup { <<"U", "m", " ", "I", " ", "[", "l", "a", "u", "g", "h", "s", "]", " ", "a", "m">>, <<"a", "[", "b", "]", "c">>, <<"U", "M", ",", " ", "u", "m", " ", "H", "m", "m">>, IIAmFineLaughs }

WcInit ==
    /\ segment \in WcTexts
    /\ word_count = 0
    /\ wc_pc = "start"
    /\ SegIdle /\ RepIdle /\ CueIdle /\ ExtIdle /\ BatchIdle /\ DisIdle /\ MetaIdle
    /\ CmpIdle /\ IncIdle

\* clean_and_count_words(seg)
CountWords ==
    /\ wc_pc = "start"
    /\ word_count' = clean_and_count_words(segment)
    /\ wc_pc' = "done"
    /\ UNCHANGED segment
    /\ UNCHANGED <<segVars, repVars, cueVars, extVars, batchVars, disVars, metaVars, cmpVars, incVars>>

WcNext == CountWords

SpecWc == WcInit /\ [][WcNext]_vars

\* len(text.split())
RawTokenCount(s) == Len(Split(s))

\* the text contains a bracketed span: an opening bracket with a closing
\* bracket somewhere after it
HasBracketedSpan(s) ==
    \E i \in 1..Len(s) : \E j \in (i + 1)..Len(s) : s[i] = "[" /\ s[j] = "]"

\* the disfluency token set as section 4.4 of the specification lists it
ListedDisfluencies ==
    { <<"u", "m">>, <<"u", "m", "m">>, <<"u", "h">>, <<"u", "h", "h">>, <<"u", "h", "h", "h">>, <<"e", "r">>, <<"e", "r", "r">>, <<"e", "r", "m">>,
      <<"a", "h">>, <<"a", "h", "h">>, <<"h", "m">>, <<"h", "m", "m">>, <<"m", "h", "m">>, <<"m", "m">>, <<"m", "m", "m">>, <<"e", "h">>,
      <<"e", "h", "m">>, <<"e", "m">> }

\* some whitespace-delimited token of the text is, lowercased, a disfluency
HasDisfluencyToken(s) ==
    \E k \in 1..Len(Split(s)) : Lower(Split(s)[k]) \in ListedDisfluencies

\* C7 as stated: the clean word count never exceeds the raw whitespace token
\* count, and equals it if and only if the text has no bracketed span and no
\* disfluency token.
C7_AsStated ==
    wc_pc = "done" =>
       /\ word_count <= RawTokenCount(segment)
       /\ (word_count = RawTokenCount(segment))
             <=> (~HasBracketedSpan(segment) /\ ~HasDisfluencyToken(segment))

\* C7 (amended): the clean word count never exceeds the raw whitespace token
\* count; it equals it whenever the text has no bracketed span and no
\* disfluency token, and is strictly smaller whenever the text has a
\* disfluency token.  (A bracketed span glued to a word, as in 'a[b]c' or
\* 'm[]', leaves the two counts equal.)
C7_WordCountExclusion ==
    wc_pc = "done" =>
       /\ word_count <= RawTokenCount(segment)
       /\ (~HasBracketedSpan(segment) /\ ~HasDisfluencyToken(segment))
             => word_count = RawTokenCount(segment)
       /\ HasDisfluencyToken(segment) => word_count < RawTokenCount(segment)

\* a text with a bracketed span and a disfluency token has been counted and
\* both were excluded
C7_Witness ==
    /\ wc_pc = "done"
    /\ HasBracketedSpan(segment)
    /\ HasDisfluencyToken(segment)
    /\ word_count = 2
    /\ RawTokenCount(segment) = 4

(***************************************************************************)
(* nonverbal_extract.py: normalize_nonverbal_cue                           *)
(***************************************************************************)
\* the characters U+2013, U+2014 and U+2026, each one character of the text
EnDash   == "<en-dash>"
EmDash   == "<em-dash>"
Ellipsis == "<ellipsis>"

\* s starts with one of the alternatives
PrefixAny(s, alts) == \E a \in alts : StartsWith(s, a)

\* '.*' between two indices: no newline in s[from..to-1]
SameLine(s, from, to) == \A m \in from..(to - 1) : s[m] # "\n"

\* lit found by '.*lit' started at index from
LaterOnLine(s, from, lit) ==
    \E i \in from..(Len(s) + 1) : LitAt(s, i, lit) /\ SameLine(s, from, i)

\* ^(a1|a2|...)\s+(b1|b2|...)
PrefixSpacesWord(s, alts, nexts) ==
    \E a \in alts : \E b \in nexts : \E i \in (Len(a) + 2)..(Len(s) + 1) :
        /\ StartsWith(s, a)
        /\ \A m \in (Len(a) + 1)..(i - 1) : IsSpace(s[m])
        /\ LitAt(s, i, b)

\* ^(c{lo,hi})$ : the whole string (up to a final newline) is lo..hi copies of c
WholeRunOf(s, c, lo, hi) ==
    \E n \in lo..hi :
        /\ n <= Len(s)
        /\ \A m \in 1..n : s[m] = c
        /\ DollarAt(s, n + 1)

\* ^(smile|smiles|smiling)(?!.*camera)
SmileWithoutCamera(s) ==
    \E a \in { <<"s", "m", "i", "l", "e">>, <<"s", "m", "i", "l", "e", "s">>, <<"s", "m", "i", "l", "i", "n", "g">> } :
        StartsWith(s, a) /\ ~LaterOnLine(s, Len(a) + 1, <<"c", "a", "m", "e", "r", "a">>)

\* the normalizations table, in the order of the dict: whether the pattern
\* matches cue_clean (re.match), and its replacement
Normalizations(c) ==
    << [match |-> StartsWith(c, <<"i", "n", "a", "u", "d", "i", "b", "l", "e">>), replacement |-> <<"i", "n", "a", "u", "d", "i", "b", "l", "e">>],
       [match |-> StartsWith(c, <<"p", "a", "u", "s", "e">>)
                    \/ PrefixSpacesWord(c, { <<"l", "o", "n", "g">> }, { <<"p", "a", "u", "s", "e">> }),
        replacement |-> <<"p", "a", "u", "s", "e">>],
       [match |-> PrefixAny(c, { <<"l", "a", "u", "g", "h">>, <<"l", "a", "u", "g", "h", "t", "e", "r">>, <<"l", "a", "u", "g", "h", "i", "n", "g">>, <<"l", "a", "u", "g", "h", "s">>,
                                 <<"c", "h", "u", "c", "k", "l", "e">>, <<"c", "h", "u", "c", "k", "l", "e", "s">>, <<"c", "h", "u", "c", "k", "l", "i", "n", "g">>,
                                 <<"g", "i", "g", "g", "l", "e">>, <<"g", "i", "g", "g", "l", "e", "s">>, <<"g", "i", "g", "g", "l", "i", "n", "g">> }),
        replacement |-> <<"l", "a", "u", "g", "h", "t", "e", "r">>],
       [match |-> PrefixAny(c, { <<"c", "o", "u", "g", "h">>, <<"c", "o", "u", "g", "h", "s">>, <<"c", "o", "u", "g", "h", "i", "n", "g">> }),
        replacement |-> <<"c", "o", "u", "g", "h", "i", "n", "g">>],
       [match |-> PrefixAny(c, { <<"s", "i", "g", "h">>, <<"s", "i", "g", "h", "s">>, <<"s", "i", "g", "h", "i", "n", "g">> }),
        replacement |-> <<"s", "i", "g", "h", "i", "n", "g">>],
       [match |-> PrefixAny(c, { <<"n", "o", "d">>, <<"n", "o", "d", "s">>, <<"n", "o", "d", "d", "i", "n", "g">> }),
        replacement |-> <<"n", "o", "d", "d", "i", "n", "g">>],
       [match |-> PrefixSpacesWord(c, { <<"s", "h", "a", "k", "e">>, <<"s", "h", "a", "k", "e", "s">>, <<"s", "h", "a", "k", "i", "n", "g">> },
                                      { <<"h", "e", "a", "d">>, <<"h", "e", "a", "d", "s">> }),
        replacement |-> <<"s", "h", "a", "k", "i", "n", "g", "_", "h", "e", "a", "d">>],
       [match |-> PrefixAny(c, { <<"h", "u", "m">>, <<"h", "u", "m", "s">>, <<"h", "u", "m", "m", "i", "n", "g">> }),
        replacement |-> <<"h", "u", "m", "m", "i", "n", "g">>],
       [match |-> PrefixAny(c, { <<"s", "i", "n", "g">>, <<"s", "i", "n", "g", "s">>, <<"s", "i", "n", "g", "i", "n", "g">> }),
        replacement |-> <<"s", "i", "n", "g", "i", "n", "g">>],
       [match |-> PrefixAny(c, { <<"m", "u", "m", "b", "l", "e">>, <<"m", "u", "m", "b", "l", "e", "s">>, <<"m", "u", "m", "b", "l", "i", "n", "g">> }),
        replacement |-> <<"m", "u", "m", "b", "l", "i", "n", "g">>],
       [match |-> PrefixAny(c, { <<"y", "a", "w", "n">>, <<"y", "a", "w", "n", "s">>, <<"y", "a", "w", "n", "i", "n", "g">> }),
        replacement |-> <<"y", "a", "w", "n", "i", "n", "g">>],
       [match |-> PrefixAny(c, { <<"g", "e", "s", "t", "u", "r", "e">>, <<"g", "e", "s", "t", "u", "r", "e", "s">>, <<"g", "e", "s", "t", "u", "r", "i", "n", "g">> }),
        replacement |-> <<"g", "e", "s", "t", "u", "r", "i", "n", "g">>],
       [match |-> PrefixAny(c, { <<"p", "o", "i", "n", "t">>, <<"p", "o", "i", "n", "t", "s">>, <<"p", "o", "i", "n", "t", "i", "n", "g">> }),
        replacement |-> <<"p", "o", "i", "n", "t", "i", "n", "g">>],
       [match |-> PrefixAny(c, { <<"c", "l", "a", "p">>, <<"c", "l", "a", "p", "s">>, <<"c", "l", "a", "p", "p", "i", "n", "g">> }),
        replacement |-> <<"c", "l", "a", "p", "p", "i", "n", "g">>],
       [match |-> SmileWithoutCamera(c), replacement |-> <<"s", "m", "i", "l", "i", "n", "g">>],
       [match |-> PrefixAny(c, { <<"d", "a", "n", "c", "e">>, <<"d", "a", "n", "c", "e", "s">>, <<"d", "a", "n", "c", "i", "n", "g">> }),
        replacement |-> <<"d", "a", "n", "c", "i", "n", "g">>],
       [match |-> \E d \in { "-", EnDash, EmDash } : WholeRunOf(c, d, 1, 3),
        replacement |-> <<"i", "n", "t", "e", "r", "r", "u", "p", "t", "i", "o", "n">>],
       [match |-> \/ \E n \in 3..Len(c) : WholeRunOf(c, ".", n, n)
                  \/ \E n \in 1..Len(c) : WholeRunOf(c, Ellipsis, n, n),
        replacement |-> <<"t", "r", "a", "i", "l", "i", "n", "g", "_", "o", "f", "f">>] >>

\* the shortest string the last exclusion pattern, .{50,}, matches
LongCueLen == 50

\* vr\d+_[cp] found at index i
ParticipantTagAt(s, i) ==
    /\ LitAt(s, i, <<"v", "r">>)
    /\ \E j \in (i + 3)..(Len(s) - 1) :
          /\ \A m \in (i + 2)..(j - 1) : s[m] \in Digits
          /\ s[j] = "_"
          /\ s[j + 1] \in {"c", "p"}

\* lit$ found by re.search: lit ends the string, or ends just before a final newline
EndsLine(s, lit) ==
    \E i \in 1..(Len(s) + 1) : LitAt(s, i, lit) /\ DollarAt(s, i + Len(lit))

\* exclusion_patterns, in list order: whether re.search finds the pattern
ExclusionPatterns(c) ==
    << \E i \in 1..Len(c) : \E j \in 1..Len(c) :
           /\ LitAt(c, i, <<"s", "p", "e", "a", "k", "i", "n", "g">>) /\ i + 8 <= j /\ c[j] = "{"
           /\ SameLine(c, i + 8, j) /\ LaterOnLine(c, j + 1, <<"}">>),
       \E i \in 1..Len(c) :
           /\ LitAt(c, i, <<"s", "p", "e", "a", "k", "i", "n", "g">>)
           /\ \E l \in { <<"s", "p", "a", "n", "i", "s", "h">>, <<"p", "o", "r", "t", "u", "g", "u", "e", "s", "e">>, <<"r", "u", "s", "s", "i", "a", "n">>, <<"m", "a", "n", "d", "a", "r", "i", "n">>,
                         <<"e", "n", "g", "l", "i", "s", "h">> } : LaterOnLine(c, i + 8, l),
       Contains(c, <<"t", "r", "a", "n", "s", "l", "a", "t", "e">>) \/ Contains(c, <<"t", "r", "a", "n", "s", "l", "a", "t", "i", "n", "g">>),
       Contains(c, <<"r", "e", "s", "e", "a", "r", "c", "h", "e", "r">>),
       Contains(c, <<"r", "e", "s", "e", "a", "r", "c", "h", " ", "c", "o", "o", "r", "d", "i", "n", "a", "t", "o", "r">>),
       Contains(c, <<"c", "o", "o", "r", "d", "i", "n", "a", "t", "o", "r">>),
       Contains(c, <<"c", "a", "m", "e", "r", "a">>),
       Contains(c, <<"v", "i", "d", "e", "o">>),
       Contains(c, <<"s", "c", "r", "e", "e", "n">>),
       Contains(c, <<"r", "e", "c", "o", "r", "d", "i", "n", "g">>),
       \E i \in 1..Len(c) : ParticipantTagAt(c, i),
       EndsLine(c, <<"n", "a", "m", "e">>),
       EndsLine(c, <<"f", "r", "i", "e", "n", "d">>),
       Contains(c, <<"d", "a", "y", " ", "p", "r", "o", "g", "r", "a", "m", " ", "l", "e", "a", "d", "e", "r">>),
       Contains(c, <<"i", "f", " ", "p", "a", "r", "t", "i", "c", "i", "p", "a", "n", "t">>),
       Contains(c, <<"f", "o", "r", " ", "e", "x", "a", "m", "p", "l", "e">>),
       Contains(c, <<"r", "e", "a", "d", "s", " ", "o", "n">>) \/ Contains(c, <<"r", "e", "a", "d", "s", " ", "s", "i", "g", "n">>),
       \E i \in 1..(Len(c) - LongCueLen + 1) : SameLine(c, i, i + LongCueLen) >>

\* cue_clean = re.sub(r'^\[|\]$', '', cue.lower().strip())
CleanCue(c) ==
    LET cue_lower == Strip(Lower(c))
        a == IF cue_lower # <<>> /\ cue_lower[1] = "[" THEN 2 ELSE 1
        \* a ']' that the '^\[' match has not consumed, at the end of the string
        b == IF Len(cue_lower) >= a /\ cue_lower[Len(cue_lower)] = "]"
             THEN Len(cue_lower) - 1 ELSE Len(cue_lower)
    IN  SubSeq(cue_lower, a, b)

\* the first matching entry of the normalizations table, 0 when none matches
FirstNormalization(cc) ==
    LET t == Normalizations(cc)
    IN  IF \E k \in 1..Len(t) : t[k].match
        THEN CHOOSE k \in 1..Len(t) : t[k].match /\ \A m \in 1..(k - 1) : ~t[m].match
        ELSE 0

AnyExclusion(cc) ==
    LET found == ExclusionPatterns(cc)
    IN  \E k \in 1..Len(found) : found[k]

\* a mutation of normalize_nonverbal_cue: the exclusion list consulted first
NormalizeExcludingFirst(c) ==
    IF c = None \/ c = <<>> THEN None
    ELSE LET cue_clean == CleanCue(c)
             k == FirstNormalization(cue_clean)
             t == Normalizations(cue_clean)
         IN  IF AnyExclusion(cue_clean) THEN None
             ELSE IF k # 0 THEN t[k].replacement
             ELSE cue_clean

normalize_nonverbal_cue(c) ==
    IF c = None \/ c = <<>> THEN None
    ELSE LET cue_clean == CleanCue(c)
             k == FirstNormalization(cue_clean)
             t == Normalizations(cue_clean)
         IN  IF k # 0 THEN t[k].replacement
             ELSE IF AnyExclusion(cue_clean) THEN None
             ELSE cue_clean

(***************************************************************************)
(* Normalization of one raw cue, and of its own result                     *)
(***************************************************************************)
MaxCueParts == 2

\* a word of 25 letters: two of them and a blank make a cue of 51 characters
LongWord == [k \in 1..25 |-> "z"]

CueWords ==
    { <<"l", "a", "u", "g", "h", "s">>, <<"p", "a", "u", "s", "e">>, <<"s", "m", "i", "l", "e", "s">>, <<"c", "a", "m", "e", "r", "a">>, <<"n", "a", "m", "e">>, <<"w", "a", "v", "e", "s">>,
      <<"l", "o", "n", "g">>, LongWord }

\* 1..n words joined by single blanks
RECURSIVE CuePhrases(_)
CuePhrases(n) ==
    IF n = 1 THEN CueWords
    ELSE LET prev == CuePhrases(n - 1)
         IN  prev \cup { p \o <<" ">> \o w : p \in prev, w \in CueWords }

\* the canonical categories of the normalizations table
CanonicalCategories ==
    { <<"i", "n", "a", "u", "d", "i", "b", "l", "e">>, <<"p", "a", "u", "s", "e">>, <<"l", "a", "u", "g", "h", "t", "e", "r">>, <<"c", "o", "u", "g", "h", "i", "n", "g">>, <<"s", "i", "g", "h", "i", "n", "g">>,
      <<"n", "o", "d", "d", "i", "n", "g">>, <<"s", "h", "a", "k", "i", "n", "g", "_", "h", "e", "a", "d">>, <<"h", "u", "m", "m", "i", "n", "g">>, <<"s", "i", "n", "g", "i", "n", "g">>, <<"m", "u", "m", "b", "l", "i", "n", "g">>,
      <<"y", "a", "w", "n", "i", "n", "g">>, <<"g", "e", "s", "t", "u", "r", "i", "n", "g">>, <<"p", "o", "i", "n", "t", "i", "n", "g">>, <<"c", "l", "a", "p", "p", "i", "n", "g">>, <<"s", "m", "i", "l", "i", "n", "g">>,
      <<"d", "a", "n", "c", "i", "n", "g">>, <<"i", "n", "t", "e", "r", "r", "u", "p", "t", "i", "o", "n">>, <<"t", "r", "a", "i", "l", "i", "n", "g", "_", "o", "f", "f">> }

\* cues of the specification's examples and of each remaining pattern
ListedCues ==
    CanonicalCategories \cup
    { <<"s", "p", "e", "a", "k", "i", "n", "g", " ", "P", "o", "r", "t", "u", "g", "u", "e", "s", "e">>, <<"L", "a", "u", "g", "h", "i", "n", "g">>, <<"L", "O", "N", "G", " ", " ", "p", "a", "u", "s", "e", " ", "h", "e", "r", "e">>,
      <<"s", "h", "a", "k", "e", "s", " ", "h", "e", "a", "d">>, <<"S", "h", "a", "k", "i", "n", "g", " ", "\n", " ", "h", "e", "a", "d", "s", " ", "n", "o">>, <<"s", "h", "a", "k", "e", "s">>, <<"[", " ", "p", "a", "u", "s", "e", " ", "]">>,
      <<"-">>, <<"-", "-", "-">>, <<"-", "-", "-", "-">>, <<EnDash, EnDash>>, <<EmDash>>, <<"-", EmDash>>,
      <<".", ".">>, <<".", ".", ".">>, <<".", ".", ".", ".", ".">>, <<Ellipsis>>, <<Ellipsis, Ellipsis>>,
      <<"s", "m", "i", "l", "e", "s", "\n", "c", "a", "m", "e", "r", "a">>, <<"s", "m", "i", "l", "e", " ", "a", "t", " ", "t", "h", "e", " ", "c", "a", "m", "e", "r", "a">>, <<"s", "m", "i", "l", "i", "n", "g">>,
      <<"f", "r", "i", "e", "n", "d">>, <<"s", "a", "y", "s", " ", "n", "a", "m", "e">>, <<"w", "a", "v", "e", "s", " ", "t", "o", " ", "f", "r", "i", "e", "n", "d">>, <<"f", "r", "i", "e", "n", "d", "l", "y">>,
      <<"s", "p", "e", "a", "k", "i", "n", "g", " ", "{", "x", "}">>, <<"t", "r", "a", "n", "s", "l", "a", "t", "i", "n", "g">>, <<"r", "e", "s", "e", "a", "r", "c", "h", "e", "r", " ", "e", "n", "t", "e", "r", "s">>,
      <<"r", "e", "s", "e", "a", "r", "c", "h", " ", "c", "o", "o", "r", "d", "i", "n", "a", "t", "o", "r">>, <<"v", "i", "d", "e", "o", " ", "o", "n">>, <<"s", "c", "r", "e", "e", "n">>, <<"r", "e", "c", "o", "r", "d", "i", "n", "g">>,
      <<"l", "a", "u", "g", "h", "s", " ", "a", "t", " ", "r", "e", "c", "o", "r", "d", "i", "n", "g">>, <<"v", "r", "1", "2", "_", "c", " ", "s", "p", "e", "a", "k", "s">>, <<"v", "r", "_", "c">>, <<"d", "a", "y", " ", "p", "r", "o", "g", "r", "a", "m", " ", "l", "e", "a", "d", "e", "r">>,
      <<"i", "f", " ", "p", "a", "r", "t", "i", "c", "i", "p", "a", "n", "t">>, <<"f", "o", "r", " ", "e", "x", "a", "m", "p", "l", "e">>, <<"r", "e", "a", "d", "s", " ", "o", "n">>, <<"r", "e", "a", "d", "s", " ", "s", "i", "g", "n">>, <<"r", "e", "a", "d", "s">>,
      <<"[", "[", "l", "a", "u", "g", "h", "s", "]", "]">>, <<"[", "]">>, <<"[", " ", "]">>, <<"[">>, <<"]">>, <<" ">>, <<"-", "-", "\n", "]">>,
      <<"c", "o", "u", "g", "h", "s">> \o <<" ">> \o LongWord \o <<" ">> \o LongWord,
      LongWord \o <<"\n">> \o LongWord,
      <<>>, None }

CueInputs ==
    { lead \o p \o tail :
        lead \in { <<>>, <<"[">>, <<"[", " ">>, <<" ">> },
        p \in CuePhrases(MaxCueParts),
        tail \in { <<>>, <<"]">>, <<" ", "]">> } }
    \cup ListedCues

CueInit ==
    /\ cue \in CueInputs
    /\ normalized = None
    /\ renormalized = None
    /\ cue_pc = "start"
    /\ SegIdle /\ RepIdle /\ WcIdle /\ ExtIdle /\ BatchIdle /\ DisIdle /\ MetaIdle
    /\ CmpIdle /\ IncIdle

\* n = normalize_nonverbal_cue(cue)
Normalize ==
    /\ cue_pc = "start"
    /\ normalized' = normalize_nonverbal_cue(cue)
    /\ cue_pc' = "once"
    /\ UNCHANGED <<cue, renormalized>>
    /\ UNCHANGED <<segVars, repVars, wcVars, extVars, batchVars, disVars, metaVars, cmpVars, incVars>>

\* normalize_nonverbal_cue applied to its own result
Renormalize ==
    /\ cue_pc = "once"
    /\ renormalized' = normalize_nonverbal_cue(normalized)
    /\ cue_pc' = "twice"
    /\ UNCHANGED <<cue, normalized>>
    /\ UNCHANGED <<segVars, repVars, wcVars, extVars, batchVars, disVars, metaVars, cmpVars, incVars>>

CueNext == Normalize \/ Renormalize

SpecCue == CueInit /\ [][CueNext]_vars

\* C8: normalizing a normalized cue changes nothing, a discarded cue stays
\* discarded: normalize(normalize(x)) = normalize(x) for every raw cue x, with
\* or without brackets and padding.  (A result of None and a result of the
\* empty string both count as discarded.)
C8_Idempotent ==
    cue_pc = "twice" =>
        \/ renormalized = normalized
        \/ (renormalized \in {None, <<>>} /\ normalized \in {None, <<>>})

\* C8, the part that holds: every canonical category maps to itself
C8_CanonicalFixed ==
    (cue_pc = "twice" /\ cue \in CanonicalCategories) =>
        (normalized = cue /\ renormalized = cue)

\* the indices of the normalization rules that match the cleaned cue
MatchingRules(cc) ==
    LET t == Normalizations(cc)
    IN  { k \in 1..Len(t) : t[k].match }

\* C9: a (non-empty) cue whose cleaned text matches a normalization rule
\* yields that rule's category, whether or not an exclusion pattern matches
\* too; a cue matching no rule yields no category if an exclusion pattern is
\* found in it, and its cleaned lowercase text otherwise.
C9_NormalizeExcludePassThrough ==
    (cue_pc \in {"once", "twice"} /\ cue # None /\ cue # <<>>) =>
        LET cc == CleanCue(cue)
            t  == Normalizations(cc)
            hits == MatchingRules(cc)
        IN  /\ \A k \in hits : normalized = t[k].replacement
            /\ (hits = {} /\ AnyExclusion(cc)) => normalized = None
            /\ (hits = {} /\ ~AnyExclusion(cc)) => normalized = cc

\* a cue of more than 50 characters that starts like a cough, so that a
\* normalization rule and an exclusion pattern both match, has been normalized
C9_Witness ==
    /\ cue_pc = "once"
    /\ cue # None
    /\ MatchingRules(CleanCue(cue)) # {}
    /\ ExclusionPatterns(CleanCue(cue))[18]
    /\ normalized = <<"c", "o", "u", "g", "h", "i", "n", "g">>

(***************************************************************************)
(* nonverbal_extract.py: extract_cues_from_text;                           *)
(* calculations.py: count_nonverbal_cues                                   *)
(***************************************************************************)
\* [n for cue in raw_cues if (n := normalize_nonverbal_cue(cue))]
RECURSIVE KeepNormalized(_)
KeepNormalized(raw_cues) ==
    IF raw_cues = <<>> THEN <<>>
    ELSE LET n == normalize_nonverbal_cue(Head(raw_cues))
         IN  (IF n # None /\ n # <<>> THEN <<n>> ELSE <<>>)
             \o KeepNormalized(Tail(raw_cues))

\* a mutation of extract_cues_from_text: the raw cues, not normalised
ExtractCuesRaw(s) == FindSpans(s, "[", "]", 1, 1)

\* raw_cues = re.findall(r'\[(.+?)\]', text)
extract_cues_from_text(s) == KeepNormalized(FindSpans(s, "[", "]", 1, 1))

\* len(re.findall(r'\[(.*?)\]', segment))
count_nonverbal_cues(seg) == Len(FindSpans(seg, "[", "]", 0, 1))

(***************************************************************************)
(* Cues of one turn text                                                   *)
(***************************************************************************)
MaxExtPieces == 3

ExtPieces == { <<"[", "]">>, <<"[", " ", "]">>, <<"[", "l", "a", "u", "g", "h", "s", "]">>, <<"h", "i">>, <<" ">> }

ExtTexts == TextsOf(ExtPieces, MaxExtPieces)

ExtInit ==
    /\ cue_text \in ExtTexts
    /\ cues = <<>>
    /\ nonverbal_count = 0
    /\ ext_pc = "start"
    /\ SegIdle /\ RepIdle /\ WcIdle /\ CueIdle /\ BatchIdle /\ DisIdle /\ MetaIdle
    /\ CmpIdle /\ IncIdle

\* cues = extract_cues_from_text(t['text'])
ExtractCues ==
    /\ ext_pc = "start"
    /\ cues' = extract_cues_from_text(cue_text)
    /\ ext_pc' = "extracted"
    /\ UNCHANGED <<cue_text, nonverbal_count>>
    /\ UNCHANGED <<segVars, repVars, wcVars, cueVars, batchVars, disVars, metaVars, cmpVars, incVars>>

\* calculations.analyze_transcript: count_nonverbal_cues(seg) of the turn text
CountNonverbal ==
    /\ ext_pc = "extracted"
    /\ nonverbal_count' = count_nonverbal_cues(cue_text)
    /\ ext_pc' = "done"
    /\ UNCHANGED <<cue_text, cues>>
    /\ UNCHANGED <<segVars, repVars, wcVars, cueVars, batchVars, disVars, metaVars, cmpVars, incVars>>

ExtNext == ExtractCues \/ CountNonverbal

SpecExt == ExtInit /\ [][ExtNext]_vars

\* the text with every bracketed span of empty or whitespace-only content left out
RECURSIVE WithoutMalformed(_, _)
WithoutMalformed(s, pos) ==
    IF pos > Len(s) THEN <<>>
    ELSE IF /\ s[pos] = "["
            /\ \E e \in (pos + 1)..Len(s) :
                  s[e] = "]" /\ \A m \in (pos + 1)..(e - 1) : IsSpace(s[m])
         THEN LET e == CHOOSE e \in (pos + 1)..Len(s) :
                          s[e] = "]" /\ \A m \in (pos + 1)..(e - 1) : IsSpace(s[m])
              IN  WithoutMalformed(s, e + 1)
         ELSE <<s[pos]>> \o WithoutMalformed(s, pos + 1)

\* C10: a bracketed span of empty or whitespace-only content is no cue: the
\* turn's cue list and its nonverbal cue count are what they would be without
\* the span, and the other bracketed spans of the turn are extracted as before.
C10_MalformedCueIsNoCue ==
    ext_pc = "done" =>
       /\ cues = extract_cues_from_text(WithoutMalformed(cue_text, 1))
       /\ nonverbal_count = count_nonverbal_cues(WithoutMalformed(cue_text, 1))

\* C10, the cue list alone: the cues extracted are those of the text without
\* its malformed spans
C10_CueListUnaltered ==
    ext_pc \in {"extracted", "done"} =>
        cues = extract_cues_from_text(WithoutMalformed(cue_text, 1))

(***************************************************************************)
(* Participant id, filename metadata and the counters of calculations.py   *)
(***************************************************************************)
\* re.search(r'vr(?:x)?\d+', text, re.IGNORECASE) anchored at index i: the
\* index after the match (digits taken greedily), 0 when there is no match
ParticipantIdEnd(s, i) ==
    IF ~LitAtCI(s, i, <<"v", "r">>) THEN 0
    ELSE LET d == IF i + 2 <= Len(s) /\ ToLowerChar(s[i + 2]) = "x"
                     /\ i + 3 <= Len(s) /\ s[i + 3] \in Digits
                  THEN i + 3 ELSE i + 2
         IN  IF d <= Len(s) /\ s[d] \in Digits
             THEN CHOOSE e \in (d + 1)..(Len(s) + 1) :
                     /\ \A m \in d..(e - 1) : s[m] \in Digits
                     /\ (e = Len(s) + 1 \/ s[e] \notin Digits)
             ELSE 0

\* a mutation of extract_participant_id: the rightmost occurrence
ExtractLastParticipantId(s) ==
    IF \A i \in 1..Len(s) : ParticipantIdEnd(s, i) = 0 THEN None
    ELSE LET i == CHOOSE i \in 1..Len(s) :
                    /\ ParticipantIdEnd(s, i) # 0
                    /\ \A m \in (i + 1)..Len(s) : ParticipantIdEnd(s, m) = 0
         IN  Lower(SubSeq(s, i, ParticipantIdEnd(s, i) - 1))

\* m.group(0).lower() if m else None
extract_participant_id(s) ==
    IF \A i \in 1..Len(s) : ParticipantIdEnd(s, i) = 0 THEN None
    ELSE LET i == CHOOSE i \in 1..Len(s) :
                    /\ ParticipantIdEnd(s, i) # 0
                    /\ \A m \in 1..(i - 1) : ParticipantIdEnd(s, m) = 0
         IN  Lower(SubSeq(s, i, ParticipantIdEnd(s, i) - 1))

\* re.search(r'(EP|ER)(\d+)', filename): f"Week {group(2)}" or "Unknown"
WeekLabel(filename) ==
    LET hit(i) == /\ (LitAt(filename, i, <<"E", "P">>) \/ LitAt(filename, i, <<"E", "R">>))
                  /\ i + 2 <= Len(filename)
                  /\ filename[i + 2] \in Digits
    IN  IF \E i \in 1..Len(filename) : hit(i)
        THEN LET i == CHOOSE i \in 1..Len(filename) :
                         hit(i) /\ \A m \in 1..(i - 1) : ~hit(m)
                 e == CHOOSE e \in (i + 3)..(Len(filename) + 1) :
                         /\ \A m \in (i + 2)..(e - 1) : filename[m] \in Digits
                         /\ (e = Len(filename) + 1 \/ filename[e] \notin Digits)
             IN  <<"W", "e", "e", "k", " ">> \o SubSeq(filename, i + 2, e - 1)
        ELSE <<"U", "n", "k", "n", "o", "w", "n">>

\* a mutation of the condition: Tablet only for the researcher sessions
ConditionUnlessER(filename) == IF Contains(filename, <<"E", "R">>) THEN "Tablet" ELSE "VR"

\* condition = "VR" if 'EP' in filename else "Tablet"
Condition(filename) == IF Contains(filename, <<"E", "P">>) THEN "VR" ELSE "Tablet"

\* nonverbal_extract.py, word_repeats_extract.py
extract_metadata_from_filename(filename) ==
    [session_type |->
        IF Contains(filename, <<"E", "P">>) THEN "EP"
        ELSE IF Contains(filename, <<"E", "R">>) THEN "ER"
        ELSE IF Contains(Lower(filename), <<"b", "a", "s", "e", "l", "i", "n", "e">>) THEN "baseline"
        ELSE IF Contains(filename, <<"F", "i", "n", "a", "l", " ", "I", "n", "t", "e", "r", "v", "i", "e", "w">>)
                \/ Contains(filename, <<"f", "i", "n", "a", "l", "_", "i", "n", "t", "e", "r", "v", "i", "e", "w">>) THEN "final_interview"
        ELSE "unknown",
     week_label |-> WeekLabel(filename),
     condition  |-> Condition(filename)]

\* calculations.py
extract_metadata(filename) ==
    [session_type |->
        IF Contains(filename, <<"E", "P">>) THEN "EP"
        ELSE IF Contains(filename, <<"E", "R">>) THEN "ER"
        ELSE IF Contains(filename, <<"b", "a", "s", "e", "l", "i", "n", "e">>) THEN "baseline"
        ELSE IF Contains(filename, <<"F", "i", "n", "a", "l", " ", "I", "n", "t", "e", "r", "v", "i", "e", "w">>)
                \/ Contains(filename, <<"f", "i", "n", "a", "l", "_", "i", "n", "t", "e", "r", "v", "i", "e", "w">>) THEN "final_interview"
        ELSE "unknown",
     week_label |-> WeekLabel(filename),
     condition  |-> Condition(filename)]

\* sum(1 for w in segment.split() if w.lower() in DISFLUENCIES)
count_disfluencies(seg) ==
    Len(SelectSeq(Split(seg), LAMBDA w : Lower(w) \in DISFLUENCIES))

\* re.split(r'[.!?]+', segment.strip()), the pieces that are not blank counted
count_sentences(seg) ==
    LET s == Strip(seg)
        term(c) == c \in {".", "!", "?"}
    IN  Cardinality({ i \in 1..Len(s) :
            /\ ~term(s[i])
            /\ (i = 1 \/ term(s[i - 1]))
            /\ \E j \in i..Len(s) :
                  /\ \A m \in i..j : ~term(s[m])
                  /\ ~IsSpace(s[j]) })

\* segment.count('?')
count_questions(seg) == Cardinality({ i \in 1..Len(seg) : seg[i] = "?" })

\* a mutation of the segment search: a document without the tag taken as one segment
FindSegmentsUntagged(s, pid, pattern, pos) ==
    IF \A k \in 1..Len(s) : ~LitAtCI(s, k, pattern) THEN <<s>> ELSE <<>>

\* re.findall(f"{pattern}(.*?)(?={participant_id}_[cp]:|$)", content,
\*            re.DOTALL | re.IGNORECASE): group 1 of the non-overlapping matches
RECURSIVE FindSegments(_, _, _, _)
FindSegments(s, pid, pattern, pos) ==
    IF \A k \in pos..Len(s) : ~LitAtCI(s, k, pattern) THEN <<>>
    ELSE LET st == CHOOSE k \in pos..Len(s) :
                      /\ LitAtCI(s, k, pattern)
                      /\ \A m \in pos..(k - 1) : ~LitAtCI(s, m, pattern)
             gs == st + Len(pattern)
             e  == LazyEnd(s, pid, gs)
         IN  <<SubSeq(s, gs, e - 1)>> \o FindSegments(s, pid, pattern, e)

\* sum(...) of a sequence of numbers
RECURSIVE SumSeq(_)
SumSeq(ns) == IF ns = <<>> THEN 0 ELSE Head(ns) + SumSeq(Tail(ns))

\* round(a / b, 2) if b > 0 else 0, in hundredths (a tie between two
\* hundredths needs b to be a multiple of 8, more turns than a document here has)
RoundedRatio(a, b) == IF b > 0 THEN (200 * a + b) \div (2 * b) ELSE 0

\* s[:n]
Take(s, n) == SubSeq(s, 1, Min2(n, Len(s)))

(***************************************************************************)
(* The record of one file in each pipeline                                 *)
(***************************************************************************)
\* the limits of the emitted records
TextLimit    == 500
RepeatsLimit == 10
TurnsLimit   == 200

Unknown == <<"u", "n", "k", "n", "o", "w", "n">>

\* a dict in insertion order: a sequence of [key, n]; d[key] += n
RECURSIVE DictAdd(_, _, _)
DictAdd(d, key, n) ==
    IF d = <<>> THEN <<[key |-> key, n |-> n]>>
    ELSE IF Head(d).key = key THEN <<[key |-> key, n |-> Head(d).n + n]>> \o Tail(d)
    ELSE <<Head(d)>> \o DictAdd(Tail(d), key, n)

\* for c in cues: cue_totals[c] += 1, over the turns in order
RECURSIVE CueTotals(_, _)
CueTotals(d, cs) ==
    IF cs = <<>> THEN d ELSE CueTotals(DictAdd(d, Head(cs), 1), Tail(cs))

RECURSIVE Flatten(_)
Flatten(ss) == IF ss = <<>> THEN <<>> ELSE Head(ss) \o Flatten(Tail(ss))

\* calculations.analyze_transcript, after the two early returns
AnalysisRecord(filename, content, pid) ==
    LET meta == extract_metadata(filename)
        caregiver_segments == FindSegments(content, pid, CaregiverPattern(pid), 1)
        plwd_segments      == FindSegments(content, pid, PlwdPattern(pid), 1)
        caregiver_turns == Len(caregiver_segments)
        plwd_turns      == Len(plwd_segments)
        caregiver_words ==
            SumSeq([k \in 1..caregiver_turns |-> clean_and_count_words(caregiver_segments[k])])
        plwd_words ==
            SumSeq([k \in 1..plwd_turns |-> clean_and_count_words(plwd_segments[k])])
    IN  [patient_id   |-> pid,
         week_label   |-> meta.week_label,
         session_type |-> meta.session_type,
         condition    |-> meta.condition,
         filename     |-> filename,
         caregiver_turns |-> caregiver_turns,
         plwd_turns      |-> plwd_turns,
         caregiver_words |-> caregiver_words,
         plwd_words      |-> plwd_words,
         caregiver_sentences |->
            SumSeq([k \in 1..caregiver_turns |-> count_sentences(caregiver_segments[k])]),
         plwd_sentences |->
            SumSeq([k \in 1..plwd_turns |-> count_sentences(plwd_segments[k])]),
         plwd_nonverbal |->
            SumSeq([k \in 1..plwd_turns |-> count_nonverbal_cues(plwd_segments[k])]),
         caregiver_nonverbal |->
            SumSeq([k \in 1..caregiver_turns |-> count_nonverbal_cues(caregiver_segments[k])]),
         caregiver_questions |->
            SumSeq([k \in 1..caregiver_turns |-> count_questions(caregiver_segments[k])]),
         plwd_questions |->
            SumSeq([k \in 1..plwd_turns |-> count_questions(plwd_segments[k])]),
         caregiver_disfluencies |->
            SumSeq([k \in 1..caregiver_turns |-> count_disfluencies(caregiver_segments[k])]),
         plwd_disfluencies |->
            SumSeq([k \in 1..plwd_turns |-> count_disfluencies(plwd_segments[k])]),
         avg_words_per_turn |->
            RoundedRatio(caregiver_words + plwd_words, caregiver_turns + plwd_turns),
         caregiver_words_per_utterance |-> RoundedRatio(caregiver_words, caregiver_turns),
         plwd_words_per_utterance      |-> RoundedRatio(plwd_words, plwd_turns)]

\* analyze_transcript(file_path): None for an empty or unreadable document and
\* for a document without a participant id
analyze_transcript(filename, content) ==
    IF content = <<>> THEN None
    ELSE IF extract_participant_id(content) = None THEN None
    ELSE AnalysisRecord(filename, content, extract_participant_id(content))

\* participant_id = extract_participant_id(text) or 'unknown'
ParticipantIdOrUnknown(s) ==
    IF extract_participant_id(s) = None THEN Unknown ELSE extract_participant_id(s)

\* the 'metadata' object of nonverbal_extract and word_repeats_extract
FileMetadata(fname, pid) ==
    LET meta == extract_metadata_from_filename(fname)
    IN  [patient_id   |-> Upper(pid),
         session_type |-> meta.session_type,
         week_label   |-> meta.week_label,
         condition    |-> meta.condition,
         filename     |-> fname]

\* nonverbal_extract.process_all: the value stored under by_file[fname]
NonverbalRecord(fname, s) ==
    LET pid == ParticipantIdOrUnknown(s)
        ts  == split_turns(s, pid)
        out_turns == [k \in 1..Len(ts) |->
                        [speaker |-> ts[k].speaker,
                         text    |-> Take(ts[k].text, TextLimit),
                         nonverbal_cues |-> extract_cues_from_text(ts[k].text)]]
    IN  [metadata |-> FileMetadata(fname, pid),
         stats    |-> [nonverbal_cues |->
                          CueTotals(<<>>, Flatten([k \in 1..Len(ts) |->
                                                      out_turns[k].nonverbal_cues]))],
         turns    |-> out_turns]

\* by_word[r['word']] += r['count'] - 1, over the repeats in order
RECURSIVE ByWord(_, _)
ByWord(d, reps) ==
    IF reps = <<>> THEN d
    ELSE ByWord(DictAdd(d, Head(reps).word, Head(reps).count - 1), Tail(reps))

\* sorted(by_word.items(), key=lambda x: x[1], reverse=True): a stable sort,
\* larger counts first
RECURSIVE InsertByCount(_, _)
InsertByCount(sorted, e) ==
    IF sorted = <<>> THEN <<e>>
    ELSE IF Head(sorted).n >= e.n THEN <<Head(sorted)>> \o InsertByCount(Tail(sorted), e)
    ELSE <<e>> \o sorted

RECURSIVE SortByCount(_)
SortByCount(d) ==
    IF d = <<>> THEN <<>>
    ELSE InsertByCount(SortByCount(SubSeq(d, 1, Len(d) - 1)), d[Len(d)])

\* word_repeats_extract.process_all: the value stored under by_file[fname]
RepeatsRecord(fname, s) ==
    LET pid == ParticipantIdOrUnknown(s)
        ts  == split_turns(s, pid)
        per == [k \in 1..Len(ts) |->
                  LET cleaned == clean_text_remove_brackets(ts[k].text)
                      reps    == detect_immediate_repeats(tokenize_basic(cleaned))
                  IN  [speaker |-> ts[k].speaker,
                       text    |-> Take(cleaned, TextLimit),
                       reps    |-> reps]]
        total(sp) == SumSeq([k \in 1..Len(ts) |->
                        IF per[k].speaker = sp THEN ExtraCount(per[k].reps) ELSE 0])
        listed == SelectSeq(per, LAMBDA t : t.reps # <<>>)
    IN  [metadata |-> FileMetadata(fname, pid),
         stats    |-> [repeats |->
                         [caregiver_total |-> total("caregiver"),
                          plwd_total      |-> total("plwd"),
                          by_word |-> SortByCount(ByWord(<<>>,
                                        Flatten([k \in 1..Len(ts) |-> per[k].reps])))]],
         turns    |-> Take([k \in 1..Len(listed) |->
                              [speaker |-> listed[k].speaker,
                               text    |-> listed[k].text,
                               repeats |-> Take(listed[k].reps, RepeatsLimit)]],
                           TurnsLimit)]

(***************************************************************************)
(* The batch pipelines: calculations.process_all_files,                    *)
(* nonverbal_extract.process_all, word_repeats_extract.process_all.  files *)
(* is the traversal of data/<participant>/<session>/ in os.listdir order;  *)
(* a file that cannot be read has the text "" (read_docx returns "").      *)
(***************************************************************************)
MaxFiles == 3

\* the files a data directory may hold: path and document text
DataFiles ==
    { [dir |-> "p1", fname |-> <<"E", "P", "1", ".", "d", "o", "c", "x">>,
       text |-> <<"V", "R", "0", "1", "4", "_", "c", ":", " ", "H", "o", "w", " ", "a", "r", "e", " ", "y", "o", "u", "?", " ", "[", "p", "a", "u", "s", "e", "]", " ", "V", "R", "0", "1", "4", "_", "p", ":", " ", "I", " ", "I", " ", "a", "m", " ", "f", "i", "n", "e", " ", "[", "l", "a", "u", "g", "h", "s", "]">>],
      [dir |-> "p3", fname |-> <<"E", "R", "5", ".", "d", "o", "c", "x">>,
       text |-> <<"S", "e", "s", "s", "i", "o", "n", "\n", "v", "r", "5", "_", "c", ":", " ", "g", "o", " ", "g", "o", " ", "h", "a", " ", "h", "a", " ", "g", "o", " ", "g", "o", " ", "h", "a", " ", "h", "a", " ", "g", "o", " ", "g", "o", " ", "h", "a", " ", "h", "a", " ", "g", "o", " ", "g", "o", " ", "h", "a", " ", "h", "a", " ", "g", "o", " ", "g", "o", " ", "h", "a", " ", "h", "a", " ", "g", "o", " ", "g", "o", " ", "[", "n", "o", "d", "s", "]", " ", "V", "R", "5", "_", "P", ":", " ", "u", "m", ",", " ", "f", "i", "n", "e", " ", "f", "i", "n", "e">>],
      [dir |-> "p2", fname |-> <<"E", "P", "1", ".", "d", "o", "c", "x">>, text |-> <<"h", "e", "l", "l", "o", " ", "t", "h", "e", "r", "e", " ", "[", "l", "a", "u", "g", "h", "s", "]">>],
      [dir |-> "p1", fname |-> <<"b", ".", "d", "o", "c", "x">>,   text |-> <<>>],
      [dir |-> "p2", fname |-> <<"b", ".", "d", "o", "c", "x">>,   text |-> <<"n", "o", "t", "e", "s", " ", "o", "n", " ", "v", "r", "x", "2">>],
      [dir |-> "p1", fname |-> <<"n", ".", "D", "O", "C", "X">>,   text |-> <<"v", "r", "1", "_", "c", ":", " ", "h", "i">>],
      [dir |-> "p2", fname |-> <<"E", "R", "2", "_", "B", "a", "s", "e", "l", "i", "n", "e", ".", "d", "o", "c", "x">>,
       text |-> <<"v", "r", "3", "_", "p", ":", " ", "n", "o", " ", "n", "o", ".", " ", "[", "]", " ", "v", "r", "3", "_", "c", ":", " ", "g", "o", " ", "g", "o", " ", "g", "o", "!", " ", "v", "r", "3", "_", "p", ":">>] }

\* the listings of at most n files, no file twice
RECURSIVE Listings(_)
Listings(n) ==
    IF n = 0 THEN {<<>>}
    ELSE LET prev == Listings(n - 1)
         IN  prev \cup { Append(l, f) : l \in { p \in prev : Len(p) = n - 1 },
                                        f \in DataFiles }

NoFileTwice(l) == \A a, b \in 1..Len(l) : a # b => l[a] # l[b]

BatchInit ==
    /\ files \in { l \in Listings(MaxFiles) : NoFileTwice(l) }
    /\ pipeline \in {"calculations", "nonverbal", "repeats"}
    /\ file_i = 1
    /\ by_file = <<>>
    /\ results = <<>>
    /\ SegIdle /\ RepIdle /\ WcIdle /\ CueIdle /\ ExtIdle /\ DisIdle /\ MetaIdle
    /\ CmpIdle /\ IncIdle

\* by_file[fname] = record: a dict in insertion order, an existing key keeps its place
RECURSIVE DictPut(_, _, _)
DictPut(d, key, value) ==
    IF d = <<>> THEN <<[key |-> key, value |-> value]>>
    ELSE IF Head(d).key = key THEN <<[key |-> key, value |-> value]>> \o Tail(d)
    ELSE <<Head(d)>> \o DictPut(Tail(d), key, value)

IsDocx(fname) == EndsWith(fname, <<".", "d", "o", "c", "x">>)

\* a mutation of process_all_files: the first file that yields no record ends the run
CalcStopAtFailure ==
    /\ pipeline = "calculations"
    /\ file_i <= Len(files)
    /\ LET f  == files[file_i]
           ok == /\ IsDocx(f.fname)
                 /\ f.text # <<>>
                 /\ extract_participant_id(f.text) # None
       IN  /\ results' = IF ok THEN Append(results, analyze_transcript(f.fname, f.text))
                         ELSE results
           /\ file_i' = IF ok THEN file_i + 1 ELSE Len(files) + 1
    /\ UNCHANGED <<files, pipeline, by_file>>
    /\ UNCHANGED <<segVars, repVars, wcVars, cueVars, extVars, disVars, metaVars, cmpVars, incVars>>

\* one iteration of the innermost loop of calculations.process_all_files
CalcProcessFile ==
    /\ pipeline = "calculations"
    /\ file_i <= Len(files)
    /\ LET f == files[file_i]
       IN  results' =
              IF /\ IsDocx(f.fname)
                 /\ f.text # <<>>
                 /\ extract_participant_id(f.text) # None
              THEN Append(results, analyze_transcript(f.fname, f.text))
              ELSE results
    /\ file_i' = file_i + 1
    /\ UNCHANGED <<files, pipeline, by_file>>
    /\ UNCHANGED <<segVars, repVars, wcVars, cueVars, extVars, disVars, metaVars, cmpVars, incVars>>

\* one iteration of the innermost loop of nonverbal_extract.process_all
NonverbalProcessFile ==
    /\ pipeline = "nonverbal"
    /\ file_i <= Len(files)
    /\ LET f == files[file_i]
       IN  by_file' =
              IF IsDocx(f.fname) /\ f.text # <<>>
              THEN DictPut(by_file, f.fname, NonverbalRecord(f.fname, f.text))
              ELSE by_file
    /\ file_i' = file_i + 1
    /\ UNCHANGED <<files, pipeline, results>>
    /\ UNCHANGED <<segVars, repVars, wcVars, cueVars, extVars, disVars, metaVars, cmpVars, incVars>>

\* a mutation of process_all: caregiver_total and plwd_total are initialised
\* once, before the loops, so each record carries the totals of the files before
RepeatsCarryingTotals ==
    /\ pipeline = "repeats"
    /\ file_i <= Len(files)
    /\ LET f    == files[file_i]
           rec  == RepeatsRecord(f.fname, f.text)
           prev == IF by_file = <<>>
                   THEN [caregiver_total |-> 0, plwd_total |-> 0]
                   ELSE by_file[Len(by_file)].value.stats.repeats
           carried == [rec EXCEPT
                         !.stats.repeats.caregiver_total = @ + prev.caregiver_total,
                         !.stats.repeats.plwd_total = @ + prev.plwd_total]
       IN  by_file' =
              IF IsDocx(f.fname) /\ f.text # <<>>
              THEN DictPut(by_file, f.fname, carried)
              ELSE by_file
    /\ file_i' = file_i + 1
    /\ UNCHANGED <<files, pipeline, results>>
    /\ UNCHANGED <<segVars, repVars, wcVars, cueVars, extVars, disVars, metaVars, cmpVars, incVars>>

\* one iteration of the innermost loop of word_repeats_extract.process_all
RepeatsProcessFile ==
    /\ pipeline = "repeats"
    /\ file_i <= Len(files)
    /\ LET f == files[file_i]
       IN  by_file' =
              IF IsDocx(f.fname) /\ f.text # <<>>
              THEN DictPut(by_file, f.fname, RepeatsRecord(f.fname, f.text))
              ELSE by_file
    /\ file_i' = file_i + 1
    /\ UNCHANGED <<files, pipeline, results>>
    /\ UNCHANGED <<segVars, repVars, wcVars, cueVars, extVars, disVars, metaVars, cmpVars, incVars>>

Next == CalcProcessFile \/ NonverbalProcessFile \/ RepeatsProcessFile

Spec == BatchInit /\ [][Next]_vars

\* the text holds the participant-id pattern: vr, an optional x, digits
HasParticipantIdPattern(s) ==
    \E i \in 1..Len(s) : \E j \in (i + 2)..Len(s) :
        /\ Lower(SubSeq(s, i, i + 1)) = <<"v", "r">>
        /\ (j = i + 2 \/ (j = i + 3 /\ ToLowerChar(s[i + 2]) = "x"))
        /\ s[j] \in Digits

\* the keys of by_file
Keys(d) == { d[k].key : k \in 1..Len(d) }

\* C3: a file whose text holds no participant-id pattern is excluded from every
\* batch pipeline: when no file of a given name holds the pattern, the output
\* never has a record under that name.
C3_NoIdFileExcluded ==
    \A k \in 1..Len(files) :
        (\A j \in 1..Len(files) :
            files[j].fname = files[k].fname => ~HasParticipantIdPattern(files[j].text))
        => /\ files[k].fname \notin Keys(by_file)
           /\ \A r \in 1..Len(results) : results[r].filename # files[k].fname

\* C3, calculations.process_all_files alone: its results never hold a record
\* of a file without a participant-id pattern
C3_CalculationsExcludes ==
    pipeline = "calculations" =>
        \A r \in 1..Len(results) :
            \E k \in 1..(file_i - 1) :
                /\ files[k].fname = results[r].filename
                /\ HasParticipantIdPattern(files[k].text)

(***************************************************************************)
(* old_file_refernces/disfluency_ques.py: detect_disfluencies, against     *)
(* calculations.count_disfluencies                                         *)
(***************************************************************************)
\* text.replace("/2019s", "'")
RECURSIVE ReplaceApostrophe(_)
ReplaceApostrophe(s) ==
    IF s = <<>> THEN <<>>
    ELSE IF LitAt(s, 1, <<"/", "2", "0", "1", "9", "s">>)
         THEN <<"'">> \o ReplaceApostrophe(SubSeq(s, 7, Len(s)))
         ELSE <<Head(s)>> \o ReplaceApostrophe(Tail(s))

\* the alternatives of filled_pause_pattern, in the order the regex tries them
FilledPauseAlternatives ==
    << <<"u", "m">>, <<"u", "m", "m">>, <<"u", "h">>, <<"u", "h", "h">>, <<"u", "h", "h", "h">>, <<"e", "r">>, <<"e", "r", "r">>, <<"e", "r", "m">>, <<"a", "h">>,
       <<"a", "h", "h">>, <<"h", "m">>, <<"h", "m", "m">>, <<"m", "h", "m">>, <<"m", "m">>, <<"m", "m", "m">>, <<"e", "h">>, <<"e", "h", "m">>, <<"e", "m">> >>

\* \b before position i of s (i = Len(s) + 1: the end of the text)
WordBoundaryAt(s, i) ==
    (i > 1 /\ IsWordChar(s[i - 1])) # (i <= Len(s) /\ IsWordChar(s[i]))

\* the alternatives that match at position i: \b(alt)\b, IGNORECASE
FilledPausesAt(s, i) ==
    { k \in 1..Len(FilledPauseAlternatives) :
        /\ WordBoundaryAt(s, i)
        /\ LitAtCI(s, i, FilledPauseAlternatives[k])
        /\ WordBoundaryAt(s, i + Len(FilledPauseAlternatives[k])) }

\* re.finditer: the leftmost match from pos, its first matching alternative,
\* then on from the end of the match
RECURSIVE FindFilledPauses(_, _)
FindFilledPauses(s, pos) ==
    IF pos > Len(s) THEN <<>>
    ELSE IF FilledPausesAt(s, pos) = {} THEN FindFilledPauses(s, pos + 1)
    ELSE LET k == CHOOSE k \in FilledPausesAt(s, pos) :
                      \A m \in FilledPausesAt(s, pos) : k <= m
             e == pos + Len(FilledPauseAlternatives[k])
         IN  << <<"filled_pause", SubSeq(s, pos, e - 1)>> >> \o FindFilledPauses(s, e)

detect_disfluencies(s) ==
    IF s = None THEN <<>> ELSE FindFilledPauses(ReplaceApostrophe(s), 1)

MaxDisPieces == 4

DisPieces == { <<"u", "m">>, <<"U", "h">>, <<"m">>, <<"a">>, <<",">>, <<".">>, <<" ">>, <<"/", "2", "0", "1", "9", "s">> }

DisTexts == TextsOf(DisPieces, MaxDisPieces)

DisInit ==
    /\ dis_text \in DisTexts
    /\ disfluency_count = 0
    /\ disfluencies = <<>>
    /\ dis_pc = "start"
    /\ SegIdle /\ RepIdle /\ WcIdle /\ CueIdle /\ ExtIdle /\ BatchIdle /\ MetaIdle
    /\ CmpIdle /\ IncIdle

\* caregiver_disfluencies = sum(count_disfluencies(seg) ...), one segment
CountDisfluencies ==
    /\ dis_pc = "start"
    /\ disfluency_count' = count_disfluencies(dis_text)
    /\ dis_pc' = "counted"
    /\ UNCHANGED <<dis_text, disfluencies>>
    /\ UNCHANGED <<segVars, repVars, wcVars, cueVars, extVars, batchVars, metaVars, cmpVars, incVars>>

\* disfluencies = detect_disfluencies(text)
DetectDisfluencies ==
    /\ dis_pc = "counted"
    /\ disfluencies' = detect_disfluencies(dis_text)
    /\ dis_pc' = "done"
    /\ UNCHANGED <<dis_text, disfluency_count>>
    /\ UNCHANGED <<segVars, repVars, wcVars, cueVars, extVars, batchVars, metaVars, cmpVars, incVars>>

DisNext == CountDisfluencies \/ DetectDisfluencies

SpecDis == DisInit /\ [][DisNext]_vars

\* C11: for every turn text, count_disfluencies returns the number of
\* filled-pause tokens that the word-boundary detector detect_disfluencies
\* finds in it, in any letter case and next to punctuation.
C11_CountEqualsDetected ==
    dis_pc = "done" => disfluency_count = Len(disfluencies)

\* C11, the direction that holds: every token count_disfluencies counts is
\* found by the detector when the text has no '/2019s' encoding
C11_CountedAreDetected ==
    (dis_pc = "done" /\ ReplaceApostrophe(dis_text) = dis_text)
        => disfluency_count <= Len(disfluencies)

\* the file whose record by_file holds under key: the last file of that name
\* processed so far that the pipeline did not skip
SourceOf(key) ==
    LET ks == { k \in 1..(file_i - 1) :
                  files[k].fname = key /\ IsDocx(key) /\ files[k].text # <<>> }
    IN  files[CHOOSE k \in ks : \A m \in ks : m <= k]

\* extra_count of each turn with a repeat, in document order: what the turn
\* adds to caregiver_total or plwd_total, and, word by word, to by_word
TurnExtraCounts(s) ==
    LET ts   == split_turns(s, ParticipantIdOrUnknown(s))
        reps == [k \in 1..Len(ts) |->
                   detect_immediate_repeats(
                       tokenize_basic(clean_text_remove_brackets(ts[k].text)))]
        with == SelectSeq([k \in 1..Len(ts) |-> reps[k]], LAMBDA r : r # <<>>)
    IN  [k \in 1..Len(with) |-> ExtraCount(with[k])]

\* C12: for every turn listed in a record of word_repeats_extract.process_all,
\* the sum of (count - 1) over the turn's listed repeats equals the number of
\* extra occurrences the turn contributed to its speaker's total and to by_word.
C12_ListedRepeatsSumToContribution ==
    pipeline = "repeats" =>
        \A e \in 1..Len(by_file) :
            LET rec     == by_file[e].value
                contrib == TurnExtraCounts(SourceOf(by_file[e].key).text)
            IN  \A k \in 1..Len(rec.turns) :
                    ExtraCount(rec.turns[k].repeats) = contrib[k]

\* the highlight delimiter around a token
Wrapped(w) == <<"*", "*">> \o w \o <<"*", "*">>

\* C13: the context of a RepeatInstance at position i with count k in a
\* sequence of n tokens is the tokens at indices max(0, i-5) up to but
\* excluding min(n, i+k+5), in order, joined by single spaces, with exactly
\* the k tokens of the repeated span wrapped in the highlight delimiter; the
\* whole span is present with at most 5 tokens on each side.
C13_ContextWindow ==
    RepDetected =>
        \A r \in 1..Len(repeats) :
            LET i    == repeats[r].position
                k    == repeats[r].count
                n    == Len(words)
                lo   == IF i - 5 > 0 THEN i - 5 ELSE 0
                hi   == IF i + k + 5 < n THEN i + k + 5 ELSE n
                toks == Split(repeats[r].context)
            IN  /\ Len(toks) = hi - lo
                /\ \A t \in 1..Len(toks) :
                      LET idx == lo + t - 1
                      IN  toks[t] = IF i <= idx /\ idx < i + k
                                    THEN Wrapped(words[idx + 1])
                                    ELSE words[idx + 1]
                /\ repeats[r].context = JoinWithSpace(toks)
                /\ lo <= i /\ i - lo <= 5
                /\ i + k <= hi /\ hi - (i + k) <= 5

\* a run with more than 5 tokens on each side has been detected: its context
\* holds the run and exactly 5 tokens on each side
C13_Witness ==
    /\ RepDetected
    /\ \E r \in 1..Len(repeats) :
          /\ repeats[r].position > 5
          /\ Len(words) > repeats[r].position + repeats[r].count + 5
          /\ Len(Split(repeats[r].context)) = repeats[r].count + 10

\* the turns that segmenting the file behind a record produces
SegmentedTurns(key) ==
    LET s == SourceOf(key).text
    IN  split_turns(s, ParticipantIdOrUnknown(s))

\* the record's turns array has one entry per segmented turn, in document order
FullTurnList(e) ==
    LET ts == SegmentedTurns(by_file[e].key)
        listed == by_file[e].value.turns
    IN  /\ Len(listed) = Len(ts)
        /\ \A k \in 1..Len(listed) : listed[k].speaker = ts[k].speaker

\* C14: every record emitted for a file carries the full ordered turn list:
\* one entry for every turn produced by segmenting the file, in document
\* order, none omitted, truncated away or reordered.
C14_FullOrderedTurnList ==
    pipeline \in {"nonverbal", "repeats"} =>
        \A e \in 1..Len(by_file) : FullTurnList(e)

\* C14, nonverbal_extract.process_all alone: its records list every turn
C14_NonverbalListsEveryTurn ==
    pipeline = "nonverbal" =>
        \A e \in 1..Len(by_file) :
            /\ FullTurnList(e)
            /\ \A k \in 1..Len(by_file[e].value.turns) :
                  by_file[e].value.turns[k].text
                     = Take(SegmentedTurns(by_file[e].key)[k].text, TextLimit)

\* the files the by_file pipelines have processed so far: read, not skipped
ProcessedFiles ==
    { k \in 1..(file_i - 1) : IsDocx(files[k].fname) /\ files[k].text # <<>> }

\* C15: a batch run's output holds exactly one record per processed file: the
\* number of records equals the number of files processed, and no file's
\* record is replaced by the record of a different file of the same name.
C15_OneRecordPerProcessedFile ==
    pipeline \in {"nonverbal", "repeats"} =>
        /\ Len(by_file) = Cardinality(ProcessedFiles)
        /\ \A k \in ProcessedFiles :
              \E e \in 1..Len(by_file) :
                  /\ by_file[e].key = files[k].fname
                  /\ SourceOf(by_file[e].key) = files[k]

\* the files processed so far that have non-empty text and a participant id
WithTextAndId ==
    SelectSeq(SubSeq(files, 1, file_i - 1),
              LAMBDA f : f.text # <<>> /\ HasParticipantIdPattern(f.text))

\* those of them whose name ends in '.docx'
DocxWithTextAndId == SelectSeq(WithTextAndId, LAMBDA f : IsDocx(f.fname))

\* the result list is the records of the files fs, one each, in order
ResultsAreOf(fs) ==
    /\ Len(results) = Len(fs)
    /\ \A r \in 1..Len(results) :
          /\ results[r].filename = fs[r].fname
          /\ HasParticipantIdPattern(fs[r].text)
          /\ results[r].caregiver_turns + results[r].plwd_turns
                = Cardinality(MarkerOccurrences(fs[r].text, results[r].patient_id))

\* C16 as stated: in calculations.process_all_files every later file is still
\* analysed after a file that is unreadable, empty or without participant id,
\* and the result list holds exactly one record for each file with non-empty
\* text and a participant id, in traversal order.
C16_AsStated ==
    pipeline = "calculations" => ResultsAreOf(WithTextAndId)

\* C16 (amended): the same, for the files whose name ends in '.docx': files
\* of any other name (an upper-case '.DOCX' included) are skipped unread.
\* Every step of the run moves on to the next file, whatever the file yields,
\* and the result list is at every point the records of the eligible files
\* seen so far, in traversal order.
C16_FailuresDoNotAbort ==
    /\ [](pipeline = "calculations" => ResultsAreOf(DocxWithTextAndId))
    /\ [][pipeline = "calculations" => file_i' = file_i + 1]_vars

\* a run has gone past an empty file and a file without participant id and
\* analysed the file after them
C16_Witness ==
    /\ pipeline = "calculations"
    /\ file_i = 4
    /\ files[1].text = <<>>
    /\ ~HasParticipantIdPattern(files[2].text) /\ files[2].text # <<>>
    /\ Len(results) = 1
    /\ results[1].filename = files[3].fname

\* C17: a document with a participant id and no speaker marker yields a
\* record, not a failure, in which every turn, word, sentence, question,
\* disfluency and nonverbal count is 0 and every per-turn average is 0.
C17_NoTurnsFoundIsValid ==
    pipeline = "calculations" =>
        /\ Len(results) = Len(DocxWithTextAndId)
        /\ \A r \in 1..Len(results) :
              MarkerOccurrences(DocxWithTextAndId[r].text, results[r].patient_id) = {}
              => /\ results[r].filename = DocxWithTextAndId[r].fname
                 /\ results[r].caregiver_turns = 0 /\ results[r].plwd_turns = 0
                 /\ results[r].caregiver_words = 0 /\ results[r].plwd_words = 0
                 /\ results[r].caregiver_sentences = 0 /\ results[r].plwd_sentences = 0
                 /\ results[r].caregiver_questions = 0 /\ results[r].plwd_questions = 0
                 /\ results[r].caregiver_disfluencies = 0
                 /\ results[r].plwd_disfluencies = 0
                 /\ results[r].caregiver_nonverbal = 0 /\ results[r].plwd_nonverbal = 0
                 /\ results[r].avg_words_per_turn = 0
                 /\ results[r].caregiver_words_per_utterance = 0
                 /\ results[r].plwd_words_per_utterance = 0

\* the document 'notes on vrx2', with a participant id and no marker, has
\* been analysed and its record is in the results
C17_Witness ==
    /\ pipeline = "calculations"
    /\ \E r \in 1..Len(results) :
          /\ results[r].patient_id = <<"v", "r", "x", "2">>
          /\ MarkerOccurrences(DocxWithTextAndId[r].text, <<"v", "r", "x", "2">>) = {}
          /\ results[r].caregiver_turns + results[r].plwd_turns = 0

(***************************************************************************)
(* Filename metadata: calculations.extract_metadata and                    *)
(* extract_metadata_from_filename (nonverbal_extract.py and its identical  *)
(* copy in word_repeats_extract.py)                                        *)
(***************************************************************************)
MaxNameParts == 3

NameParts ==
    { <<"E", "P">>, <<"E", "R">>, <<"b", "a", "s", "e", "l", "i", "n", "e">>, <<"B", "a", "s", "e", "l", "i", "n", "e">>, <<"F", "i", "n", "a", "l", " ", "I", "n", "t", "e", "r", "v", "i", "e", "w">>,
      <<"f", "i", "n", "a", "l", "_", "i", "n", "t", "e", "r", "v", "i", "e", "w">>, <<"3">>, <<"_">>, <<".", "d", "o", "c", "x">> }

VR021_EP3_session == <<"V", "R", "0", "2", "1", "_", "E", "P", "3", "_", "s", "e", "s", "s", "i", "o", "n", ".", "d", "o", "c", "x">>
VR021_baseline    == <<"V", "R", "0", "2", "1", "_", "b", "a", "s", "e", "l", "i", "n", "e", ".", "d", "o", "c", "x">>

FileNames ==
    TextsOf(NameParts, MaxNameParts)
       \cup { VR021_EP3_session, VR021_baseline, <<"V", "R", "0", "2", "1", "_", "B", "a", "s", "e", "l", "i", "n", "e", ".", "d", "o", "c", "x">>,
              <<"v", "r", "7", "_", "E", "R", "1", "2", "_", "E", "P", "3", ".", "d", "o", "c", "x">>, <<"V", "R", "5", " ", "F", "i", "n", "a", "l", " ", "I", "n", "t", "e", "r", "v", "i", "e", "w", ".", "d", "o", "c", "x">>, <<"n", "o", "t", "e", "s", ".", "d", "o", "c", "x">> }

MetaInit ==
    /\ file_name \in FileNames
    /\ calc_metadata = <<>>
    /\ file_metadata = <<>>
    /\ meta_pc = "start"
    /\ SegIdle /\ RepIdle /\ WcIdle /\ CueIdle /\ ExtIdle /\ BatchIdle /\ DisIdle
    /\ CmpIdle /\ IncIdle

\* session_type, week_label, condition = extract_metadata(filename)
ExtractMetadata ==
    /\ meta_pc = "start"
    /\ calc_metadata' = extract_metadata(file_name)
    /\ meta_pc' = "calculations"
    /\ UNCHANGED <<file_name, file_metadata>>
    /\ UNCHANGED <<segVars, repVars, wcVars, cueVars, extVars, batchVars, disVars, cmpVars, incVars>>

\* session_type, week_label, condition = extract_metadata_from_filename(fname)
ExtractMetadataFromFilename ==
    /\ meta_pc = "calculations"
    /\ file_metadata' = extract_metadata_from_filename(file_name)
    /\ meta_pc' = "done"
    /\ UNCHANGED <<file_name, calc_metadata>>
    /\ UNCHANGED <<segVars, repVars, wcVars, cueVars, extVars, batchVars, disVars, cmpVars, incVars>>

MetaNext == ExtractMetadata \/ ExtractMetadataFromFilename

SpecMeta == MetaInit /\ [][MetaNext]_vars

\* name contains the literal part, letter case as given
NameHas(name, part) ==
    \E i \in 1..Len(name) :
        i + Len(part) - 1 <= Len(name) /\ SubSeq(name, i, i + Len(part) - 1) = part

\* the session type by the resolution order of section 4.2 of the specification
SessionTypeInOrder(name) ==
    IF NameHas(name, <<"E", "P">>) THEN "EP"
    ELSE IF NameHas(name, <<"E", "R">>) THEN "ER"
    ELSE IF NameHas(Lower(name), <<"b", "a", "s", "e", "l", "i", "n", "e">>) THEN "baseline"
    ELSE IF NameHas(name, <<"F", "i", "n", "a", "l", " ", "I", "n", "t", "e", "r", "v", "i", "e", "w">>) \/ NameHas(name, <<"f", "i", "n", "a", "l", "_", "i", "n", "t", "e", "r", "v", "i", "e", "w">>)
         THEN "final_interview"
    ELSE "unknown"

\* C18: every metadata extractor resolves the session type by first match in
\* the order EP, ER, baseline (in any letter case), final_interview, unknown.
C18_SessionTypeInOrder ==
    meta_pc = "done" =>
        /\ calc_metadata.session_type = SessionTypeInOrder(file_name)
        /\ file_metadata.session_type = SessionTypeInOrder(file_name)

\* C18, extract_metadata_from_filename alone resolves in that order
C18_FilenameExtractorInOrder ==
    meta_pc = "done" => file_metadata.session_type = SessionTypeInOrder(file_name)

\* the condition is VR exactly when the name contains 'EP', exactly when the
\* session type is EP; every other session type is labelled Tablet
ConditionFollowsEP(name, m) ==
    /\ (m.condition = "VR") <=> NameHas(name, <<"E", "P">>)
    /\ (m.condition = "VR") <=> (m.session_type = "EP")
    /\ m.session_type \in {"ER", "baseline", "final_interview", "unknown"}
          => m.condition = "Tablet"
    /\ m.condition \in {"VR", "Tablet"}
    /\ name = VR021_EP3_session
          => m = [session_type |-> "EP", week_label |-> <<"W", "e", "e", "k", " ", "3">>, condition |-> "VR"]
    /\ name = VR021_baseline
          => m = [session_type |-> "baseline", week_label |-> <<"U", "n", "k", "n", "o", "w", "n">>,
                  condition |-> "Tablet"]

\* C19: for every filename and each extractor, the condition is VR exactly
\* when the filename contains 'EP', which is exactly when the session type is
\* EP; files resolved as ER, baseline, final_interview or unknown are Tablet;
\* 'VR021_EP3_session.docx' is EP / Week 3 / VR and 'VR021_baseline.docx' is
\* baseline / Unknown / Tablet.
C19_ConditionFollowsEP ==
    /\ meta_pc \in {"calculations", "done"} => ConditionFollowsEP(file_name, calc_metadata)
    /\ meta_pc = "done" => ConditionFollowsEP(file_name, file_metadata)

\* both extractors have labelled 'VR021_EP3_session.docx' as VR
C19_Witness ==
    /\ meta_pc = "done"
    /\ file_name = VR021_EP3_session
    /\ calc_metadata.condition = "VR"
    /\ file_metadata.condition = "VR"

(***************************************************************************)
(* End-to-end scenario 1: the transcript                                   *)
(* 'VR014_c: How are you? [pause] VR014_p: I I am fine [laughs]'           *)
(* through nonverbal_extract.process_all and calculations.process_all_files*)
(***************************************************************************)
\* the nonverbal records of the scenario transcript (participant VR014)
ScenarioNonverbal ==
    { e \in 1..Len(by_file) :
        by_file[e].value.metadata.patient_id = <<"V", "R", "0", "1", "4">> }

\* the calculations records of the scenario transcript
ScenarioResults ==
    { r \in 1..Len(results) : Lower(results[r].patient_id) = <<"v", "r", "0", "1", "4">> }

\* segmentation yields two turns, caregiver then PLWD
ScenarioTwoTurns ==
    /\ pipeline = "nonverbal" =>
          \A e \in ScenarioNonverbal :
              /\ Len(by_file[e].value.turns) = 2
              /\ by_file[e].value.turns[1].speaker = "caregiver"
              /\ by_file[e].value.turns[2].speaker = "plwd"
    /\ pipeline = "calculations" =>
          \A r \in ScenarioResults :
              /\ results[r].caregiver_turns = 1
              /\ results[r].plwd_turns = 1
              /\ results[r].caregiver_questions = 1

\* C20 as stated: 2 turns, the caregiver turn has 1 question and no cue (the
\* '[pause]' before the PLWD tag is not in the caregiver turn), and the cues
\* of the transcript canonicalise to pause and laughter.
C20_AsStated ==
    /\ ScenarioTwoTurns
    /\ pipeline = "nonverbal" =>
          \A e \in ScenarioNonverbal :
              /\ by_file[e].value.turns[1].nonverbal_cues = <<>>
              /\ \A k \in 1..Len(by_file[e].value.turns) :
                    \A c \in 1..Len(by_file[e].value.turns[k].nonverbal_cues) :
                        by_file[e].value.turns[k].nonverbal_cues[c]
                            \in {<<"p", "a", "u", "s", "e">>, <<"l", "a", "u", "g", "h", "t", "e", "r">>}
    /\ pipeline = "calculations" =>
          \A r \in ScenarioResults : results[r].caregiver_nonverbal = 0

\* C20: the scenario transcript yields exactly 2 turns, the caregiver turn
\* has 1 question and 1 cue: the '[pause]' between the caregiver tag and the
\* PLWD tag lies in the caregiver turn and canonicalises to pause, and the
\* PLWD turn's '[laughs]' canonicalises to laughter.
C20_ScenarioOne ==
    /\ ScenarioTwoTurns
    /\ pipeline = "nonverbal" =>
          \A e \in ScenarioNonverbal :
              /\ by_file[e].value.turns[1].text = <<"H", "o", "w", " ", "a", "r", "e", " ", "y", "o", "u", "?", " ", "[", "p", "a", "u", "s", "e", "]">>
              /\ by_file[e].value.turns[1].nonverbal_cues = <<<<"p", "a", "u", "s", "e">>>>
              /\ by_file[e].value.turns[2].text = <<"I", " ", "I", " ", "a", "m", " ", "f", "i", "n", "e", " ", "[", "l", "a", "u", "g", "h", "s", "]">>
              /\ by_file[e].value.turns[2].nonverbal_cues = <<<<"l", "a", "u", "g", "h", "t", "e", "r">>>>
    /\ pipeline = "calculations" =>
          \A r \in ScenarioResults :
              /\ results[r].caregiver_nonverbal = 1
              /\ results[r].plwd_nonverbal = 1

\* the scenario transcript has been processed by the nonverbal pipeline
C20_Witness ==
    /\ pipeline = "nonverbal"
    /\ \E e \in ScenarioNonverbal :
          /\ Len(by_file[e].value.turns) = 2
          /\ by_file[e].value.turns[1].speaker = "caregiver"

(***************************************************************************)
(* Reprocessing: the record a run produces for a file is a function of     *)
(* the file's name and text                                                *)
(***************************************************************************)
\* by_file[key]
ValueAt(d, key) == d[CHOOSE k \in 1..Len(d) : d[k].key = key].value

\* the file the next iteration reads yields a record in a by_file pipeline
YieldsRecord == file_i <= Len(files) /\ IsDocx(files[file_i].fname)
                /\ files[file_i].text # <<>>

C22_AsStated ==
    RepDetected =>
        \A k, m \in 1..Len(repeats) :
            repeats[m].position # repeats[k].position + repeats[k].count

\* C22: a token inside a recorded run is not examined again as the start of
\* a new run: after a run over the indices i..j-1 is recorded no instance has
\* a position in i+1..j-1.  The scan resumes at j, the token right after the
\* run, which does start an instance when it begins a run of its own: the
\* tokens 'to to we we' give instances at the positions 0 and 2.
C22_ScanResumesAfterRun ==
    RepDetected =>
        /\ \A k, m \in 1..Len(repeats) :
              ~ ( /\ repeats[k].position < repeats[m].position
                  /\ repeats[m].position < repeats[k].position + repeats[k].count )
        /\ \A k \in 1..Len(repeats) :
              LET j == repeats[k].position + repeats[k].count
              IN  (/\ j + 2 <= Len(words)
                   /\ words[j + 1] = words[j + 2]
                   /\ words[j + 1] \notin DISFLUENCY_MARKERS)
                  => /\ k < Len(repeats)
                     /\ repeats[k + 1].position = j
        /\ (words = <<To, To, We, We>> =>
               /\ Len(repeats) = 2
               /\ repeats[1].position = 0 /\ repeats[2].position = 2)

\* a run of three has been recorded and the token right after it starts the
\* next instance
C22_Witness ==
    /\ RepDetected
    /\ Len(repeats) = 2
    /\ repeats[1].count = 3
    /\ repeats[2].position = repeats[1].position + 3

(***************************************************************************)
(* normalize_nonverbal_cue: the smiling rule and the camera exclusion      *)
(***************************************************************************)
SmilePrefixes == { <<"s", "m", "i", "l", "e">>, <<"s", "m", "i", "l", "e", "s">>, <<"s", "m", "i", "l", "i", "n", "g">> }

\* 'camera' occurs somewhere after a smile prefix of the cleaned cue
CameraAfterSmile(cc) ==
    \E a \in SmilePrefixes :
        /\ StartsWith(cc, a)
        /\ Contains(SubSeq(cc, Len(a) + 1, Len(cc)), <<"c", "a", "m", "e", "r", "a">>)

C23_SmilingUnlessCameraOnLine ==
    (cue_pc \in {"once", "twice"} /\ cue # None
       /\ PrefixAny(CleanCue(cue), SmilePrefixes)
       /\ SameLine(CleanCue(cue), 1, Len(CleanCue(cue)) + 1)) =>
        /\ (normalized = <<"s", "m", "i", "l", "i", "n", "g">>) <=> ~CameraAfterSmile(CleanCue(cue))
        /\ CameraAfterSmile(CleanCue(cue)) => normalized = None

(***************************************************************************)
(* normalize_nonverbal_cue: the exclusion patterns name$ and friend$       *)
(***************************************************************************)
\* the positions of name$ and friend$ in exclusion_patterns
NameFriendPatterns == {12, 13}

\* the cleaned cue matches no normalization rule and no exclusion pattern
\* other than name$ and friend$
OnlyNameFriendApplies(cc) ==
    /\ MatchingRules(cc) = {}
    /\ \A k \in 1..Len(ExclusionPatterns(cc)) :
          k \notin NameFriendPatterns => ~ExclusionPatterns(cc)[k]

\* C24: among cues that match no normalization rule and no other exclusion
\* pattern, a cue is discarded only when its cleaned text is the bare word
\* 'name' or the bare word 'friend'; a longer cue that ends in one of those
\* words ('says name', 'waves to friend') passes through as its own category.
C24_BareNameOrFriendOnly ==
    (cue_pc \in {"once", "twice"} /\ cue # None /\ cue # <<>>
       /\ OnlyNameFriendApplies(CleanCue(cue))) =>
        /\ (normalized = None) <=> CleanCue(cue) \in { <<"n", "a", "m", "e">>, <<"f", "r", "i", "e", "n", "d">> }
        /\ CleanCue(cue) \notin { <<"n", "a", "m", "e">>, <<"f", "r", "i", "e", "n", "d">> } => normalized = CleanCue(cue)

\* C24, what the code does: such a cue is discarded exactly when its cleaned
\* text ends in 'name' or in 'friend'
C24_DiscardedWhenEndingInNameOrFriend ==
    (cue_pc \in {"once", "twice"} /\ cue # None /\ cue # <<>>
       /\ OnlyNameFriendApplies(CleanCue(cue))) =>
        /\ (normalized = None) <=>
              (EndsLine(CleanCue(cue), <<"n", "a", "m", "e">>) \/ EndsLine(CleanCue(cue), <<"f", "r", "i", "e", "n", "d">>))
        /\ normalized # None => normalized = CleanCue(cue)

(***************************************************************************)
(* detect_immediate_repeats: the spans of the reported instances           *)
(***************************************************************************)
\* the instances are listed in strictly increasing position, each span
\* [position, position + count) has count >= 2 and lies within the token
\* sequence, and the spans are pairwise disjoint
DisjointOrderedSpans ==
    /\ \A k \in 1..Len(repeats) :
          /\ repeats[k].count >= 2
          /\ repeats[k].position >= 0
          /\ repeats[k].position + repeats[k].count <= Len(words)
    /\ \A k \in 1..(Len(repeats) - 1) :
          /\ repeats[k].position < repeats[k + 1].position
          /\ repeats[k].position + repeats[k].count <= repeats[k + 1].position

\* C25 as stated: ordered, disjoint spans within the sequence with count >= 2,
\* so that the sum of (count - 1) never exceeds len(words) - 1.
C25_AsStated ==
    RepDetected =>
        /\ DisjointOrderedSpans
        /\ ExtraCount(repeats) <= Len(words) - 1

\* C25: for every token sequence the instances are listed in strictly
\* increasing position and their spans [position, position + count) are
\* pairwise disjoint and lie within the sequence, with count >= 2: no token
\* belongs to two instances, so the sum of (count - 1) is at most
\* len(words) - 1 for a non-empty sequence, and 0 for the empty one.
C25_DisjointOrderedSpans ==
    RepDetected =>
        /\ DisjointOrderedSpans
        /\ ExtraCount(repeats) <= (IF words = <<>> THEN 0 ELSE Len(words) - 1)
        /\ ExtraCount(repeats) + Len(repeats) <= Len(words)

\* two instances have been reported whose spans cover the whole sequence
C25_Witness ==
    /\ RepDetected
    /\ Len(repeats) = 2
    /\ repeats[1].count + repeats[2].count = Len(words)
    /\ ExtraCount(repeats) = Len(words) - 2

(***************************************************************************)
(* The two segmentations of one document: the per-speaker findall scans    *)
(* of calculations.analyze_transcript and split_turns                      *)
(***************************************************************************)
MaxCmpPieces == 3

\* both tags in both letter cases, a truncated tag, a word, a disfluency, a
\* bracketed cue, a blank and a line break; another participant's id in a
\* heading and in a tag
CmpPieces ==
    { <<"v", "r", "1", "_", "c", ":">>, <<"V", "R", "1", "_", "P", ":">>, <<"v", "r", "1", "_">>, <<"a">>, <<"u", "m">>, <<"[", "x", "]">>, <<" ">>, <<"\n">>,
      <<"V", "R", "2", " ">>, <<"v", "r", "2", "_", "p", ":">> }

CmpTexts == TextsOf(CmpPieces, MaxCmpPieces)

\* the participant id is either the caller's (split_turns takes it as an
\* argument) or still to be extracted from the text
CmpInit ==
    /\ cmp_text \in CmpTexts
    /\ \/ cmp_pid = Vr1 /\ cmp_pc = "given"
       \/ cmp_pid = <<>> /\ cmp_pc = "start"
    /\ caregiver_segs = <<>>
    /\ plwd_segs = <<>>
    /\ cmp_turns = <<>>
    /\ SegIdle /\ RepIdle /\ WcIdle /\ CueIdle /\ ExtIdle /\ BatchIdle /\ DisIdle
    /\ MetaIdle /\ IncIdle

\* participant_id = extract_participant_id(content)
ExtractParticipantId ==
    /\ cmp_pc = "start"
    /\ cmp_pid' = extract_participant_id(cmp_text)
    /\ cmp_pc' = "id"
    /\ UNCHANGED <<cmp_text, caregiver_segs, plwd_segs, cmp_turns>>
    /\ UNCHANGED <<segVars, repVars, wcVars, cueVars, extVars, batchVars, disVars, metaVars, incVars>>

\* if not participant_id: return None;
\* caregiver_segments = re.findall(...); plwd_segments = re.findall(...)
FindSpeakerSegments ==
    /\ cmp_pc \in {"given", "id"}
    /\ caregiver_segs' =
          IF cmp_pid = None THEN <<>>
          ELSE FindSegments(cmp_text, cmp_pid, CaregiverPattern(cmp_pid), 1)
    /\ plwd_segs' =
          IF cmp_pid = None THEN <<>>
          ELSE FindSegments(cmp_text, cmp_pid, PlwdPattern(cmp_pid), 1)
    /\ cmp_pc' = "segments"
    /\ UNCHANGED <<cmp_text, cmp_pid, cmp_turns>>
    /\ UNCHANGED <<segVars, repVars, wcVars, cueVars, extVars, batchVars, disVars, metaVars, incVars>>

\* participant_id = extract_participant_id(text) or 'unknown';
\* turns = split_turns(text, participant_id)
SplitSameText ==
    /\ cmp_pc = "segments"
    /\ cmp_turns' = split_turns(cmp_text, IF cmp_pid = None THEN Unknown ELSE cmp_pid)
    /\ cmp_pc' = "done"
    /\ UNCHANGED <<cmp_text, cmp_pid, caregiver_segs, plwd_segs>>
    /\ UNCHANGED <<segVars, repVars, wcVars, cueVars, extVars, batchVars, disVars, metaVars, incVars>>

CmpNext == ExtractParticipantId \/ FindSpeakerSegments \/ SplitSameText

SpecCmp == CmpInit /\ [][CmpNext]_vars

\* the texts of the turns of one speaker, in document order
TurnTextsOf(sp) ==
    LET own == SelectSeq(cmp_turns, LAMBDA t : t.speaker = sp)
    IN  [k \in 1..Len(own) |-> own[k].text]

\* sum(clean_and_count_words(seg) for seg in segments)
CleanWordTotal(segs) ==
    SumSeq([k \in 1..Len(segs) |-> clean_and_count_words(segs[k])])

\* C26: the two segmentations agree: caregiver_turns and plwd_turns of
\* analyze_transcript equal the numbers of caregiver and plwd turns of
\* split_turns, and the per-speaker clean word totals over both
\* segmentations are equal.
C26_SegmentationsAgree ==
    cmp_pc = "done" =>
        /\ Len(caregiver_segs) = Len(TurnTextsOf("caregiver"))
        /\ Len(plwd_segs) = Len(TurnTextsOf("plwd"))
        /\ CleanWordTotal(caregiver_segs) = CleanWordTotal(TurnTextsOf("caregiver"))
        /\ CleanWordTotal(plwd_segs) = CleanWordTotal(TurnTextsOf("plwd"))

\* a document with a turn of each speaker, the caregiver's holding a word,
\* has been segmented both ways
C26_Witness ==
    /\ cmp_pc = "done"
    /\ Len(caregiver_segs) = 1
    /\ Len(plwd_segs) = 1
    /\ Len(cmp_turns) = 2
    /\ CleanWordTotal(caregiver_segs) = 1

(***************************************************************************)
(* extract_participant_id and the speaker markers built from its result    *)
(***************************************************************************)
\* s[i..j] is an occurrence of the pattern: vr, an optional x, one or more
\* digits, in any letter case, taken as far as the digits go
IdOccurrence(s, i, j) ==
    /\ i + 2 <= j /\ j <= Len(s)
    /\ Lower(SubSeq(s, i, i + 1)) = <<"v", "r">>
    /\ \E d \in (i + 2)..j :
          /\ (d = i + 2 \/ (d = i + 3 /\ ToLowerChar(s[i + 2]) = "x"))
          /\ \A m \in d..j : s[m] \in Digits
    /\ (j = Len(s) \/ s[j + 1] \notin Digits)

\* the occurrences of the pattern in the text
IdSpans(s) ==
    { p \in (1..Len(s)) \X (1..Len(s)) : IdOccurrence(s, p[1], p[2]) }

\* the lowercased id of the occurrence that starts leftmost (none: no set member)
LeftmostIds(s) ==
    { Lower(SubSeq(s, p[1], p[2])) :
        p \in { p \in IdSpans(s) : \A q \in IdSpans(s) : p[1] <= q[1] } }

\* the lowercased ids used in the speaker tags of the text: an occurrence
\* followed by _c: or _p:
TagIds(s) ==
    { Lower(SubSeq(s, p[1], p[2])) :
        p \in { p \in IdSpans(s) :
                  /\ p[2] + 3 <= Len(s)
                  /\ s[p[2] + 1] = "_"
                  /\ ToLowerChar(s[p[2] + 2]) \in {"c", "p"}
                  /\ s[p[2] + 3] = ":" } }

\* C27: extract_participant_id returns the lowercased leftmost occurrence of
\* the pattern and None exactly when the text has no occurrence; the speaker
\* markers are built from that id only, so when it is not the id of any of
\* the document's speaker tags no tag is recognised and both segmentations
\* yield zero turns.
C27_LeftmostIdDecidesTags ==
    /\ cmp_pc = "id" =>
          /\ (cmp_pid = None) <=> (IdSpans(cmp_text) = {})
          /\ cmp_pid # None => LeftmostIds(cmp_text) = {cmp_pid}
    /\ (cmp_pc = "done" /\ cmp_pid \in LeftmostIds(cmp_text)
          /\ cmp_pid \notin TagIds(cmp_text)) =>
          /\ cmp_turns = <<>>
          /\ caregiver_segs = <<>> /\ plwd_segs = <<>>

\* a document whose heading names vr2 while its speaker tag names vr1 has
\* gone through id extraction and both segmentations
C27_Witness ==
    /\ cmp_pc = "done"
    /\ cmp_pid = <<"v", "r", "2">>
    /\ TagIds(cmp_text) = { <<"v", "r", "1">> }
    /\ cmp_turns = <<>>

(***************************************************************************)
(* incremental_processor.py: IncrementalProcessor.  A file of the data     *)
(* directory is its path (str(file_path)) and the number of text chunks    *)
(* extract_docx_content returns for it (0: no text, or unreadable).  An    *)
(* embedding row, an index vector and a chunk_metadata entry are each      *)
(* written as the chunk they were made from.  The stored files are <<>>    *)
(* when absent and <<content>> when present.                               *)
(***************************************************************************)
MaxIncFiles == 2
MaxChunks == 2

PathNames ==
    << "data/vr001/EP/VR001_EP1.docx", "data/vr001/ER/VR001_ER1.docx",
       "data/vr002/EP/VR002_EP1.docx", "data/vr002/ER/VR002_ER1.docx" >>

IncPaths == { PathNames[k] : k \in 1..MaxIncFiles }

\* for i, chunk in enumerate(text_content): the chunks of a file of n chunks
ChunksOf(p, n) == [i \in 1..n |-> [file_path |-> p, chunk_index |-> i - 1]]

\* the master_data of a fresh start
EmptyMaster == [embeddings |-> <<>>, chunk_metadata |-> <<>>, file_data |-> <<>>]

\* data left by an earlier pipeline: master_transcripts.pkl without index
\* file and without processed-files log
LegacyMaster ==
    [embeddings     |-> ChunksOf(PathNames[1], 1),
     chunk_metadata |-> ChunksOf(PathNames[1], 1),
     file_data      |-> <<[file_path |-> PathNames[1], chunk_count |-> 1]>>]

IncInit ==
    /\ data_dir = <<>>
    /\ master_file \in { <<>>, <<LegacyMaster>> }
    /\ faiss_file = <<>>
    /\ processed_files_log = <<>>
    /\ master_data = EmptyMaster
    /\ faiss_index = <<>>
    /\ processed_files = {}
    /\ new_files = <<>>
    /\ runs_unchanged = 0
    /\ inc_pc = "none"
    /\ SegIdle /\ RepIdle /\ WcIdle /\ CueIdle /\ ExtIdle /\ BatchIdle /\ DisIdle
    /\ MetaIdle /\ CmpIdle

\* a file is put into a session directory of the data directory
AddFile ==
    /\ \E p \in IncPaths \ DOMAIN data_dir : \E n \in 0..MaxChunks :
          data_dir' = [q \in DOMAIN data_dir \cup {p} |->
                          IF q = p THEN n ELSE data_dir[q]]
    /\ runs_unchanged' = 0
    /\ UNCHANGED <<master_data, faiss_index, processed_files, master_file,
                   faiss_file, processed_files_log, new_files, inc_pc>>
    /\ UNCHANGED <<segVars, repVars, wcVars, cueVars, extVars, batchVars, disVars, metaVars, cmpVars>>

\* the file paths of chunk_metadata
PathsOfChunks(chunk_metadata) ==
    { chunk_metadata[k].file_path : k \in 1..Len(chunk_metadata) }

\* a mutation of load_existing_data: the processed-files log is not read
LoadIgnoringLog ==
    /\ master_data' = IF master_file # <<>> THEN master_file[1] ELSE EmptyMaster
    /\ faiss_index' =
          IF master_file = <<>> THEN <<>>
          ELSE IF faiss_file # <<>> THEN faiss_file[1]
          ELSE master_file[1].embeddings
    /\ processed_files' = {}
    /\ inc_pc' = "loaded"
    /\ UNCHANGED <<data_dir, master_file, faiss_file, processed_files_log,
                   new_files, runs_unchanged>>
    /\ UNCHANGED <<segVars, repVars, wcVars, cueVars, extVars, batchVars, disVars, metaVars, cmpVars>>

\* IncrementalProcessor(): __init__ calls load_existing_data
LoadExistingData ==
    /\ master_data' = IF master_file # <<>> THEN master_file[1] ELSE EmptyMaster
    /\ faiss_index' =
          IF master_file = <<>> THEN <<>>
          ELSE IF faiss_file # <<>> THEN faiss_file[1]
          ELSE master_file[1].embeddings
    /\ processed_files' =
          IF master_file = <<>> THEN {}
          ELSE IF processed_files_log # <<>> THEN processed_files_log[1]
          ELSE PathsOfChunks(master_file[1].chunk_metadata)
    /\ inc_pc' = "loaded"
    /\ UNCHANGED <<data_dir, master_file, faiss_file, processed_files_log,
                   new_files, runs_unchanged>>
    /\ UNCHANGED <<segVars, repVars, wcVars, cueVars, extVars, batchVars, disVars, metaVars, cmpVars>>

\* find_new_files: the files of the directory not in processed_files
find_new_files == { p \in DOMAIN data_dir : p \notin processed_files }

\* the orders in which the directory iteration may yield the files of a set
Orderings(S) ==
    { o \in [1..Cardinality(S) -> S] : \A a, b \in 1..Cardinality(S) : a # b => o[a] # o[b] }

\* the files of the list from which text was extracted
WithText(fs) == SelectSeq(fs, LAMBDA p : data_dir[p] > 0)

\* new_chunks (and new_chunk_metadata) of process_new_files
RECURSIVE NewChunks(_)
NewChunks(fs) ==
    IF fs = <<>> THEN <<>>
    ELSE ChunksOf(Head(fs), data_dir[Head(fs)]) \o NewChunks(Tail(fs))

\* new_file_data of process_new_files
NewFileData(fs) ==
    [k \in 1..Len(WithText(fs)) |->
        [file_path |-> WithText(fs)[k], chunk_count |-> data_dir[WithText(fs)[k]]]]

\* master_data after process_new_files(fs)
MasterAfter(fs) ==
    IF NewChunks(fs) = <<>> THEN master_data
    ELSE [embeddings     |-> master_data.embeddings \o NewChunks(fs),
          chunk_metadata |-> master_data.chunk_metadata \o NewChunks(fs),
          file_data      |-> master_data.file_data \o NewFileData(fs)]

\* a mutation of process_new_files: the new vectors are not added to the index
ProcessWithoutIndexing ==
    /\ inc_pc # "none"
    /\ \E fs \in Orderings(find_new_files) :
          /\ new_files' = fs
          /\ processed_files' = processed_files \cup { WithText(fs)[k] : k \in 1..Len(WithText(fs)) }
          /\ master_data' = MasterAfter(fs)
          /\ faiss_index' = faiss_index
    /\ runs_unchanged' = 0
    /\ inc_pc' = "processed"
    /\ UNCHANGED <<data_dir, master_file, faiss_file, processed_files_log>>
    /\ UNCHANGED <<segVars, repVars, wcVars, cueVars, extVars, batchVars, disVars, metaVars, cmpVars>>

\* process_new_files(new_files) on the files find_new_files returns
ProcessNewFiles ==
    /\ inc_pc # "none"
    /\ \E fs \in Orderings(find_new_files) :
          /\ new_files' = fs
          /\ processed_files' = processed_files \cup { WithText(fs)[k] : k \in 1..Len(WithText(fs)) }
          /\ master_data' = MasterAfter(fs)
          /\ faiss_index' = faiss_index \o NewChunks(fs)
    /\ runs_unchanged' = 0
    /\ inc_pc' = "processed"
    /\ UNCHANGED <<data_dir, master_file, faiss_file, processed_files_log>>
    /\ UNCHANGED <<segVars, repVars, wcVars, cueVars, extVars, batchVars, disVars, metaVars, cmpVars>>

\* save_data: the three files are written from the structures in memory (the
\* log is written as a list and read back as a set)
SaveData ==
    /\ inc_pc # "none"
    /\ master_file' = <<master_data>>
    /\ faiss_file' = <<faiss_index>>
    /\ processed_files_log' = <<processed_files>>
    /\ runs_unchanged' = 0
    /\ inc_pc' = "saved"
    /\ UNCHANGED <<data_dir, master_data, faiss_index, processed_files, new_files>>
    /\ UNCHANGED <<segVars, repVars, wcVars, cueVars, extVars, batchVars, disVars, metaVars, cmpVars>>

\* process_data_directory: find_new_files, and when there are new files
\* process_new_files and save_data
ProcessDataDirectory ==
    /\ inc_pc # "none"
    /\ \E fs \in Orderings(find_new_files) :
          /\ new_files' = fs
          /\ processed_files' = processed_files \cup { WithText(fs)[k] : k \in 1..Len(WithText(fs)) }
          /\ master_data' = MasterAfter(fs)
          /\ faiss_index' = faiss_index \o NewChunks(fs)
          /\ IF fs # <<>>
             THEN /\ master_file' = <<MasterAfter(fs)>>
                  /\ faiss_file' = <<faiss_index \o NewChunks(fs)>>
                  /\ processed_files_log' =
                        <<processed_files \cup { WithText(fs)[k] : k \in 1..Len(WithText(fs)) }>>
             ELSE UNCHANGED <<master_file, faiss_file, processed_files_log>>
    /\ runs_unchanged' = IF runs_unchanged < 2 THEN runs_unchanged + 1 ELSE 2
    /\ inc_pc' = "ran"
    /\ UNCHANGED data_dir
    /\ UNCHANGED <<segVars, repVars, wcVars, cueVars, extVars, batchVars, disVars, metaVars, cmpVars>>

IncNext == AddFile \/ LoadExistingData \/ ProcessNewFiles \/ SaveData \/ ProcessDataDirectory

SpecInc == IncInit /\ [][IncNext]_vars

\* no element occurs twice in the sequence
NoneTwice(seq) == \A a, b \in 1..Len(seq) : a # b => seq[a] # seq[b]

\* C28: across any sequence of runs, saves and reloads, the chunks of a file
\* path are appended to master_data and to the index at most once, and a
\* run never selects a path that processed_files already records.
C28_EmbeddedAtMostOnce ==
    /\ [](inc_pc # "none" =>
             /\ NoneTwice(master_data.embeddings)
             /\ NoneTwice(master_data.chunk_metadata)
             /\ NoneTwice(faiss_index)
             /\ NoneTwice([k \in 1..Len(master_data.file_data) |->
                              master_data.file_data[k].file_path]))
    /\ [][inc_pc' \in {"ran", "processed"} =>
             \A k \in 1..Len(new_files') :
                 \/ new_files'[k] \notin processed_files
                 \/ /\ new_files' = new_files
                    /\ master_data' = master_data
                    /\ faiss_index' = faiss_index]_vars

\* a run over a directory whose files with text are all embedded, saved and
\* recorded has found nothing new
C28_Witness ==
    /\ inc_pc = "ran"
    /\ runs_unchanged = 2
    /\ new_files = <<>>
    /\ Len(faiss_index) >= 2
    /\ processed_files_log = <<processed_files>>
    /\ Cardinality(processed_files) = 2

\* C29: a run directly after a completed run over the unchanged directory
\* finds zero new files: every file a run visits is recorded as processed,
\* the files from which no text could be extracted included.
C29_SecondRunFindsNothing ==
    (inc_pc = "ran" /\ runs_unchanged >= 1) =>
        /\ DOMAIN data_dir \subseteq processed_files
        /\ runs_unchanged = 2 => new_files = <<>>

\* C29, the part that holds: a run records every file from which text was
\* extracted
C29_FilesWithTextRecorded ==
    (inc_pc = "ran" /\ runs_unchanged >= 1) =>
        \A p \in DOMAIN data_dir : data_dir[p] > 0 => p \in processed_files

\* sum(fd['chunk_count'] for fd in file_data)
RECURSIVE ChunkCountSum(_)
ChunkCountSum(file_data) ==
    IF file_data = <<>> THEN 0
    ELSE Head(file_data).chunk_count + ChunkCountSum(Tail(file_data))

\* C30: after any sequence of operations the number of embedding rows, the
\* length of chunk_metadata and the number of vectors in the index are
\* equal, and the chunk_count values of file_data sum to that number.
C30_CountsAgree ==
    inc_pc # "none" =>
        /\ Len(master_data.embeddings) = Len(master_data.chunk_metadata)
        /\ Len(faiss_index) = Len(master_data.embeddings)
        /\ ChunkCountSum(master_data.file_data) = Len(master_data.embeddings)

\* data with three chunks has been saved and loaded again, the directory
\* holding a file without text
C30_Witness ==
    /\ inc_pc = "loaded"
    /\ Len(faiss_index) = 3
    /\ faiss_file = <<faiss_index>>
    /\ \E p \in DOMAIN data_dir : data_dir[p] = 0

====
